---- MODULE Spec2Model ----
(***************************************************************************)
(* A model of parsel's selection core: root construction and type          *)
(* inference, Selector / SelectorList queries, drop(), and namespace       *)
(* registration (src/parsel/selector.py, src/parsel/utils.py), the CSS     *)
(* translator and its cache (src/parsel/csstranslator.py) and the XPath    *)
(* extension functions (src/parsel/xpathfuncs.py).                         *)
(*                                                                         *)
(* Python strings are sequences of one-character strings, so that          *)
(* json.loads, str.strip and the text of a document are computed and not   *)
(* assumed.  Python objects are records of one shape [t, i, s, v]: the     *)
(* tag t names the Python type, i holds an integer payload, s a character  *)
(* sequence and v a sequence of contained objects.                         *)
(***************************************************************************)
EXTENDS Integers, Sequences, FiniteSets, TLC

VARIABLES
    inp,        \* SpecInfer: the constructor arguments drawn by Init
    made,       \* SpecInfer: what Selector(...) returned or raised
    heap,       \* the namespace dicts alive, by address; heap[1] is the class attribute
    kind,       \* SpecSel: the type the document's root Selector was built with
    tree,       \* the lxml tree: node -> [parent, kids, text, tail]
    sel0,       \* the root Selector of the document
    sl,         \* the SelectorList the caller holds (result of the last query)
    outcome,    \* "ok" or the exception the last call raised
    last,       \* the last call: [op, q, i, adhoc]
    ret,        \* what the last read (get, getall, bool, str, attrib) returned
    ns_fns,     \* etree.FunctionNamespace(None): XPath function name -> function
    cache,      \* the lru_cache of each translator's css_to_xpath, least recent first
    call_count  \* myfunc.call_count: how often the caller's own XPath function ran

vars == <<inp, made, heap, kind, tree, sel0, sl, outcome, last, ret, ns_fns, cache,
          call_count>>

----------------------------------------------------------------------------
(* Python objects *)

\* a local variable: the value is computed once, then used as x in F
Bind(x, F(_)) == F(x)

PyVal(t, i, s, v) == [t |-> t, i |-> i, s |-> s, v |-> v]
PyNone == PyVal("NoneType", 0, <<>>, <<>>)
NOT_SET == PyVal("_NOT_SET", 0, <<>>, <<>>)
PyBool(b) == PyVal("bool", IF b THEN 1 ELSE 0, <<>>, <<>>)
PyInt(n) == PyVal("int", n, <<>>, <<>>)
PyFloat(n) == PyVal("float", n, <<>>, <<>>)
PyStr(s) == PyVal("str", 0, s, <<>>)
PyBytes(s) == PyVal("bytes", 0, s, <<>>)
PyList(v) == PyVal("list", 0, <<>>, v)
PyDict(v) == PyVal("dict", 0, <<>>, v)
\* one key/value entry of a dict: s is the key, v[1] the value
PyItem(k, x) == PyVal("item", 0, k, <<x>>)
\* an lxml element: i is the node, s the source text of a document parsed
\* outside the tree variable
Element(n, src) == PyVal("_Element", n, src, <<>>)

----------------------------------------------------------------------------
(* json.loads on character sequences.  Inputs hold no backslash, '.', 'e'  *)
(* or 'E', so string escapes and the fraction and exponent of a number     *)
(* never occur; true/false/NaN/Infinity are likewise outside the inputs.   *)

WS == {" ", "\t", "\n", "\r"}
Digits == <<"0", "1", "2", "3", "4", "5", "6", "7", "8", "9">>
IsDigit(c) == \E d \in 1..10 : Digits[d] = c
DigitVal(c) == (CHOOSE d \in 1..10 : Digits[d] = c) - 1

JFail == [ok |-> FALSE, val |-> PyNone, pos |-> 0]
JOk(val, pos) == [ok |-> TRUE, val |-> val, pos |-> pos]

RECURSIVE SkipWs(_, _)
SkipWs(s, i) ==
    IF i <= Len(s) /\ s[i] \in WS THEN SkipWs(s, i + 1) ELSE i

\* py_scanstring from the character after the opening quote
RECURSIVE py_scanstring(_, _, _)
py_scanstring(s, i, acc) ==
    IF i > Len(s) THEN JFail
    ELSE IF s[i] = "\"" THEN JOk(PyStr(acc), i + 1)
    ELSE IF s[i] \in {"\t", "\n", "\r", "NUL"} THEN JFail
    ELSE py_scanstring(s, i + 1, Append(acc, s[i]))

RECURSIVE ScanDigits(_, _, _)
ScanDigits(s, i, acc) ==
    IF i <= Len(s) /\ IsDigit(s[i])
    THEN ScanDigits(s, i + 1, acc * 10 + DigitVal(s[i]))
    ELSE [val |-> acc, pos |-> i]

\* NUMBER_RE.match at i: -?(0|[1-9][0-9]*)
match_number(s, i) ==
    LET neg == i <= Len(s) /\ s[i] = "-"
        j == IF neg THEN i + 1 ELSE i
    IN  IF j > Len(s) \/ ~IsDigit(s[j]) THEN JFail
        ELSE IF s[j] = "0" THEN JOk(PyInt(0), j + 1)
        ELSE LET d == ScanDigits(s, j, 0)
             IN  JOk(PyInt(IF neg THEN 0 - d.val ELSE d.val), d.pos)

\* dict[key] = value: a repeated key keeps its place and takes the new value
DictPut(items, k, x) ==
    IF \E n \in 1..Len(items) : items[n].s = k
    THEN [n \in 1..Len(items) |-> IF items[n].s = k THEN PyItem(k, x) ELSE items[n]]
    ELSE Append(items, PyItem(k, x))

RECURSIVE scan_once(_, _)
RECURSIVE JSONArray(_, _, _)
RECURSIVE JSONObject(_, _, _)

scan_once(s, i) ==
    IF i > Len(s) THEN JFail
    ELSE IF s[i] = "\"" THEN py_scanstring(s, i + 1, <<>>)
    ELSE IF s[i] = "{" THEN
        LET j == SkipWs(s, i + 1)
        IN  IF j <= Len(s) /\ s[j] = "}" THEN JOk(PyDict(<<>>), j + 1)
            ELSE JSONObject(s, j, <<>>)
    ELSE IF s[i] = "[" THEN
        LET j == SkipWs(s, i + 1)
        IN  IF j <= Len(s) /\ s[j] = "]" THEN JOk(PyList(<<>>), j + 1)
            ELSE JSONArray(s, j, <<>>)
    ELSE IF s[i] = "n" THEN
        IF i + 3 <= Len(s) /\ SubSeq(s, i, i + 3) = <<"n", "u", "l", "l">>
        THEN JOk(PyNone, i + 4) ELSE JFail
    ELSE match_number(s, i)

\* the loop of JSONArray: i is where the next value starts
JSONArray(s, i, acc) ==
    LET r == scan_once(s, i)
    IN  IF ~r.ok THEN JFail
        ELSE LET j == SkipWs(s, r.pos)
                 vals == Append(acc, r.val)
             IN  IF j > Len(s) THEN JFail
                 ELSE IF s[j] = "]" THEN JOk(PyList(vals), j + 1)
                 ELSE IF s[j] = "," THEN JSONArray(s, SkipWs(s, j + 1), vals)
                 ELSE JFail

\* the loop of JSONObject: i is where the next key's opening quote must be
JSONObject(s, i, acc) ==
    IF i > Len(s) \/ s[i] # "\"" THEN JFail
    ELSE LET k == py_scanstring(s, i + 1, <<>>)
         IN  IF ~k.ok THEN JFail
             ELSE LET c == SkipWs(s, k.pos)
                  IN  IF c > Len(s) \/ s[c] # ":" THEN JFail
                      ELSE LET r == scan_once(s, SkipWs(s, c + 1))
                           IN  IF ~r.ok THEN JFail
                               ELSE LET j == SkipWs(s, r.pos)
                                        items == DictPut(acc, k.val.s, r.val)
                                    IN  IF j > Len(s) THEN JFail
                                        ELSE IF s[j] = "}" THEN JOk(PyDict(items), j + 1)
                                        ELSE IF s[j] = "," THEN JSONObject(s, SkipWs(s, j + 1), items)
                                        ELSE JFail

\* json.loads(s) for a str s: [ok, val]; ok = FALSE is JSONDecodeError (a ValueError)
json_loads(s) ==
    LET r == scan_once(s, SkipWs(s, 1))
    IN  IF r.ok /\ SkipWs(s, r.pos) = Len(s) + 1
        THEN [ok |-> TRUE, val |-> r.val]
        ELSE [ok |-> FALSE, val |-> PyNone]

----------------------------------------------------------------------------
(* str and bytes helpers *)

\* str.strip(): whitespace off both ends (NUL is not whitespace)
PyWhitespace == {" ", "\t", "\n", "\r"}

RECURSIVE lstrip(_)
lstrip(s) == IF s # <<>> /\ Head(s) \in PyWhitespace THEN lstrip(Tail(s)) ELSE s

RECURSIVE rstrip(_)
rstrip(s) ==
    IF s # <<>> /\ s[Len(s)] \in PyWhitespace THEN rstrip(SubSeq(s, 1, Len(s) - 1)) ELSE s

strip(s) == rstrip(lstrip(s))

\* s.replace("\x00", ""); the NUL character is written "NUL"
RECURSIVE replace_nul(_)
replace_nul(s) ==
    IF s = <<>> THEN <<>>
    ELSE IF Head(s) = "NUL" THEN replace_nul(Tail(s))
    ELSE <<Head(s)>> \o replace_nul(Tail(s))

\* str.encode / bytes.decode.  A byte is written as its ASCII character, or
\* "xNN" above 0x7f; "EACUTE" (U+00E9) is the one non-ASCII character of the
\* inputs, "ATILDE" (U+00C3) and "COPY" (U+00A9) what its UTF-8 bytes are in
\* latin-1.
encode_char(c, encoding) ==
    IF c = "EACUTE" THEN (IF encoding = "latin-1" THEN <<"xE9">> ELSE <<"xC3", "xA9">>)
    ELSE IF c = "ATILDE" THEN (IF encoding = "latin-1" THEN <<"xC3">> ELSE <<"xC3", "x83">>)
    ELSE IF c = "COPY" THEN (IF encoding = "latin-1" THEN <<"xA9">> ELSE <<"xC2", "xA9">>)
    ELSE <<c>>

RECURSIVE encode(_, _)
encode(s, encoding) ==
    IF s = <<>> THEN <<>> ELSE encode_char(Head(s), encoding) \o encode(Tail(s), encoding)

HighBytes == {"xE9", "xC3", "xA9", "x83", "xC2"}

\* bytes.decode(encoding): [ok, s]; ok = FALSE is UnicodeDecodeError (a ValueError)
RECURSIVE decode(_, _)
decode(b, encoding) ==
    IF b = <<>> THEN [ok |-> TRUE, s |-> <<>>]
    ELSE IF encoding = "latin-1" THEN
        LET c == IF Head(b) = "xE9" THEN "EACUTE"
                 ELSE IF Head(b) = "xC3" THEN "ATILDE"
                 ELSE IF Head(b) = "xA9" THEN "COPY"
                 ELSE IF Head(b) = "x83" THEN "x83"
                 ELSE IF Head(b) = "xC2" THEN "ACIRC"
                 ELSE Head(b)
            r == decode(Tail(b), encoding)
        IN  [ok |-> r.ok, s |-> <<c>> \o r.s]
    ELSE IF Head(b) \notin HighBytes THEN
        LET r == decode(Tail(b), encoding) IN [ok |-> r.ok, s |-> <<Head(b)>> \o r.s]
    ELSE IF Len(b) >= 2 /\ SubSeq(b, 1, 2) \in {<<"xC3", "xA9">>, <<"xC3", "x83">>, <<"xC2", "xA9">>}
    THEN LET c == IF b[2] = "x83" THEN "ATILDE" ELSE IF b[1] = "xC2" THEN "COPY" ELSE "EACUTE"
             r == decode(SubSeq(b, 3, Len(b)), encoding)
         IN  [ok |-> r.ok, s |-> <<c>> \o r.s]
    ELSE [ok |-> FALSE, s |-> <<>>]

----------------------------------------------------------------------------
(* Root Builder / type inference: src/parsel/selector.py, lines 86-119 and *)
(* 297-377.                                                                *)

HtmlEmpty == <<"<", "h", "t", "m", "l", "/", ">">>

_xml_or_html(type_) == IF type_ = "xml" THEN "xml" ELSE "html"

\* etree.fromstring(body, parser=parser_cls(recover=True, ...)): the recovering
\* parser gives no root for an empty document, and else the root element of
\* the tree it built from the body.
etree_fromstring(src) == IF src = <<>> THEN PyNone ELSE Element(1, src)

create_root_node(text, body, encoding) ==
    LET bytes_ == IF text = <<>>
                  THEN strip(replace_nul(body))
                  ELSE LET e == encode(replace_nul(strip(text)), encoding)
                       IN  IF e = <<>> THEN HtmlEmpty ELSE e
        d == decode(bytes_, encoding)
        root == etree_fromstring(IF d.ok THEN d.s ELSE bytes_)
    IN  IF root = PyNone THEN etree_fromstring(HtmlEmpty) ELSE root

_get_root_from_text(text, type_) == create_root_node(text, <<>>, "utf-8")

_get_root_and_type_from_bytes(body, encoding, input_type) ==
    LET d == decode(body, encoding)
        u == decode(body, "utf-8")
        data == IF u.ok THEN json_loads(u.s) ELSE [ok |-> FALSE, val |-> PyNone]
    IN  IF input_type = "text"
        THEN IF d.ok THEN [err |-> "ok", root |-> PyStr(d.s), type |-> input_type]
             ELSE [err |-> "UnicodeDecodeError", root |-> PyNone, type |-> input_type]
        ELSE IF encoding = "utf-8" /\ data.ok
        THEN [err |-> "ok", root |-> data.val, type |-> "json"]
        ELSE IF input_type = "json"
        THEN [err |-> "ok", root |-> PyNone, type |-> "json"]
        ELSE [err |-> "ok", root |-> create_root_node(<<>>, body, encoding),
              type |-> _xml_or_html(input_type)]

_get_root_and_type_from_text(text, input_type) ==
    LET data == json_loads(text)
    IN  IF input_type = "text"
        THEN [err |-> "ok", root |-> PyStr(text), type |-> input_type]
        ELSE IF data.ok
        THEN [err |-> "ok", root |-> data.val, type |-> "json"]
        ELSE IF input_type = "json"
        THEN [err |-> "ok", root |-> PyNone, type |-> "json"]
        ELSE [err |-> "ok", root |-> _get_root_from_text(text, _xml_or_html(input_type)),
              type |-> _xml_or_html(input_type)]

\* an _is_valid_json that accepts nothing
_is_valid_json_never(text) == FALSE

\* json.loads(x) raises TypeError unless x is str, bytes or bytearray
_is_valid_json(text) ==
    IF text.t = "str" THEN json_loads(text.s).ok
    ELSE IF text.t = "bytes"
    THEN LET u == decode(text.s, "utf-8") IN u.ok /\ json_loads(u.s).ok
    ELSE FALSE

\* _get_root_type with "html" as the default of the last line
_get_root_type_html_default(root, input_type) ==
    IF root.t = "_Element"
    THEN IF input_type \in {"json", "text"}
         THEN [err |-> "ValueError", type |-> "None"]
         ELSE [err |-> "ok", type |-> _xml_or_html(input_type)]
    ELSE IF root.t \in {"dict", "list"} \/ _is_valid_json(root)
    THEN [err |-> "ok", type |-> "json"]
    ELSE [err |-> "ok", type |-> IF input_type = "None" THEN "html" ELSE input_type]

\* [err, type]
_get_root_type(root, input_type) ==
    IF root.t = "_Element"
    THEN IF input_type \in {"json", "text"}
         THEN [err |-> "ValueError", type |-> "None"]
         ELSE [err |-> "ok", type |-> _xml_or_html(input_type)]
    ELSE IF root.t \in {"dict", "list"} \/ _is_valid_json(root)
    THEN [err |-> "ok", type |-> "json"]
    ELSE [err |-> "ok", type |-> IF input_type = "None" THEN "json" ELSE input_type]

_load_json_or_none(text) ==
    IF text.t = "str" THEN (LET r == json_loads(text.s) IN IF r.ok THEN r.val ELSE PyNone)
    ELSE IF text.t = "bytes"
    THEN LET u == decode(text.s, "utf-8")
             r == IF u.ok THEN json_loads(u.s) ELSE [ok |-> FALSE, val |-> PyNone]
         IN  IF r.ok THEN r.val ELSE PyNone
    ELSE PyNone

----------------------------------------------------------------------------
(* The XPath function registry: src/parsel/xpathfuncs.py, lines 10-33 *)

\* d.update(e) on dict values
dict_update(d, e) ==
    [p \in DOMAIN d \cup DOMAIN e |-> IF p \in DOMAIN e THEN e[p] ELSE d[p]]

\* a dict without entry k
dict_del(d, k) == [p \in DOMAIN d \ {k} |-> d[p]]

\* the registry of a fresh interpreter
NoFunctions == <<>>

\* a set_xpathfunc that forgets every function when one is removed
set_xpathfunc_clearing(fns, fname, func) ==
    IF func # "None"
    THEN [err |-> "ok", fns |-> dict_update(fns, [p \in {fname} |-> func])]
    ELSE IF fname \in DOMAIN fns
    THEN [err |-> "ok", fns |-> NoFunctions]
    ELSE [err |-> "KeyError", fns |-> fns]

\* set_xpathfunc(fname, func): [err, fns].  func is the name of a Python
\* function, or "None"; del of a name that is not registered raises KeyError
set_xpathfunc(fns, fname, func) ==
    IF func # "None"
    THEN [err |-> "ok", fns |-> dict_update(fns, [p \in {fname} |-> func])]
    ELSE IF fname \in DOMAIN fns
    THEN [err |-> "ok", fns |-> dict_del(fns, fname)]
    ELSE [err |-> "KeyError", fns |-> fns]

\* setup(), run when the package is imported
setup(fns) ==
    set_xpathfunc(set_xpathfunc(fns, "has-class", "has_class").fns, "rel-id", "rel_id").fns

\* no translation cached, in the HTML and in the generic translator
NoCache == [html |-> <<>>, xml |-> <<>>]

----------------------------------------------------------------------------
(* Selector.__init__: src/parsel/selector.py, lines 431-497 *)

_default_namespaces ==
    [p \in {"re", "set"} |->
        IF p = "re" THEN "http://exslt.org/regular-expressions" ELSE "http://exslt.org/sets"]

\* the query a Selector was produced by; NoExpr is _expr = None
NoExpr == [lang |-> "None", abs |-> FALSE, axis |-> "", prefix |-> "", tag |-> "", leaf |-> ""]

NoSelector ==
    [type |-> "None", root |-> PyNone, namespaces |-> 0, _expr |-> NoExpr, _text |-> PyNone]

InitFail(h, e) == [err |-> e, warn |-> FALSE, sel |-> NoSelector, heap |-> h]

\* a constructor that updates the class attribute itself instead of a copy
new_namespaces_shared(h, namespaces) ==
    [heap |-> [h EXCEPT ![1] = dict_update(@, namespaces)], at |-> 1]

\* self.namespaces = dict(self._default_namespaces); self.namespaces.update(namespaces):
\* [heap, at], a new dict at a new address; h[1] is the class attribute
\* _default_namespaces

new_namespaces(h, namespaces) ==
    [heap |-> Append(h, dict_update(h[1], namespaces)), at |-> Len(h) + 1]

\* text, body, root: Python objects (text = PyNone and root = NOT_SET when not
\* given, body = PyBytes(<<>>) by default); type: a string, "None" when not
\* given; namespaces: a mapping, empty when None.  Returns [err, warn, sel, heap].
Selector__init__(h, text, type, body, encoding, namespaces, root, _expr) ==
    IF type \notin {"html", "json", "text", "xml", "None"} THEN InitFail(h, "ValueError")
    ELSE IF text = PyNone /\ body.s = <<>> /\ root = NOT_SET THEN InitFail(h, "ValueError")
    ELSE IF text # PyNone /\ text.t # "str" THEN InitFail(h, "TypeError")
    ELSE IF body.s # <<>> /\ text = PyNone /\ body.t \notin {"bytes", "bytearray"}
    THEN InitFail(h, "TypeError")
    ELSE
        Bind(IF text # PyNone THEN _get_root_and_type_from_text(text.s, type)
             ELSE IF body.s # <<>>
             THEN _get_root_and_type_from_bytes(body.s, encoding, type)
             ELSE Bind(_get_root_type(root, type),
                       LAMBDA g : [err |-> g.err, root |-> root, type |-> g.type]),
             LAMBDA rt :
                 IF rt.err # "ok" THEN InitFail(h, rt.err)
                 ELSE Bind(new_namespaces(h, namespaces),
                           LAMBDA h2 :
                               [err |-> "ok",
                                warn |-> text # PyNone /\ root # NOT_SET,
                                sel |-> [type |-> rt.type, root |-> rt.root,
                                         namespaces |-> h2.at,
                                         _expr |-> _expr, _text |-> text],
                                heap |-> h2.heap]))

----------------------------------------------------------------------------
(* The lxml tree.  A node is [tag, ns, attrib, parent, kids, text, tail]:  *)
(* parent is 0 for a node with no parent, kids the child elements in       *)
(* order, text the text before the first child and tail the text that      *)
(* follows the element inside its parent (lxml keeps the tail with the     *)
(* element it follows).  attrib maps attribute names to their values.      *)

NoParent == 0

Node(tag, ns, attrib, parent, kids, text, tail) ==
    [tag |-> tag, ns |-> ns, attrib |-> attrib, parent |-> parent, kids |-> kids,
     text |-> text, tail |-> tail]

\* what html.HTMLParser builds for a text without markup: html/body/p
HtmlParse(src) ==
    IF src = HtmlEmpty
    THEN <<Node("html", "", <<>>, NoParent, <<>>, <<>>, <<>>)>>
    ELSE <<Node("html", "", <<>>, NoParent, <<2>>, <<>>, <<>>),
           Node("body", "", <<>>, 1, <<3>>, <<>>, <<>>),
           Node("p", "", <<>>, 2, <<>>, src, <<>>)>>

\* the tree an element lives in: the document of the tree variable, or the
\* document parsed from the element's source text
TreeOf(tr, e) == IF e.s = <<>> THEN tr ELSE HtmlParse(e.s)

RECURSIVE TreeRoot(_, _)
TreeRoot(tr, n) == IF tr[n].parent = NoParent THEN n ELSE TreeRoot(tr, tr[n].parent)

TextItem(n, s) == IF s = <<>> THEN <<>> ELSE <<[k |-> "text", n |-> n, s |-> s]>>

\* the nodes of the subtree of n in document order: elements, and text nodes
\* with the element n they are children of
RECURSIVE Walk(_, _)
RECURSIVE WalkKids(_, _, _)
Walk(tr, n) ==
    <<[k |-> "el", n |-> n, s |-> <<>>]>> \o TextItem(n, tr[n].text) \o WalkKids(tr, n, tr[n].kids)

WalkKids(tr, p, ks) ==
    IF ks = <<>> THEN <<>>
    ELSE Walk(tr, Head(ks)) \o TextItem(p, tr[Head(ks)].tail) \o WalkKids(tr, p, Tail(ks))

Subtree(tr, n) == {w.n : w \in {Walk(tr, n)[j] : j \in 1..Len(Walk(tr, n))}}

\* el.getparent(), el.getprevious()
getparent(tr, n) == tr[n].parent

IndexOf(seq, x) == CHOOSE j \in 1..Len(seq) : seq[j] = x

getprevious(tr, n) ==
    LET ks == tr[tr[n].parent].kids
        j == IndexOf(ks, n)
    IN  IF j = 1 THEN NoParent ELSE ks[j - 1]

RemoveFrom(seq, x) == SelectSeq(seq, LAMBDA y : y # x)

\* parent.remove(el): el leaves the children of parent and takes its tail
\* with it (lxml, etree._Element.remove)
etree_remove(tr, parent, n) ==
    [tr EXCEPT ![parent].kids = RemoveFrom(@, n), ![n].parent = NoParent]

\* el.drop_tree() for an element with a parent: the tail is joined to the
\* previous sibling's tail, or to the parent's text, then the element is
\* removed (lxml.html, HtmlMixin.drop_tree)
drop_tree(tr, n) ==
    LET parent == getparent(tr, n)
        previous == getprevious(tr, n)
        joined == IF tr[n].tail = <<>> THEN tr
                  ELSE IF previous = NoParent
                  THEN [tr EXCEPT ![parent].text = @ \o tr[n].tail]
                  ELSE [tr EXCEPT ![previous].tail = @ \o tr[n].tail]
    IN  etree_remove(joined, parent, n)

----------------------------------------------------------------------------
(* The XPath evaluator, for the path expressions of the model.  A query is *)
(* [lang, abs, axis, prefix, tag, leaf]:                                   *)
(*   abs    the path starts at the root of the context node's tree (//)    *)
(*   axis   "child", "desc" (.//) or "dos" (descendant-or-self::)          *)
(*   prefix, tag   the name test; tag "*" matches any element              *)
(*   leaf   "el" the elements; "text" their text() children; "attr" their  *)
(*          @id; "count" count(path); "bool" boolean(path)                 *)

XQ(abs, axis, prefix, tag, leaf) ==
    [lang |-> "xpath", abs |-> abs, axis |-> axis, prefix |-> prefix, tag |-> tag, leaf |-> leaf]

NameTest(tr, n, q, nsp) ==
    /\ q.tag = "*" \/ tr[n].tag = q.tag
    /\ q.tag = "*" \/ tr[n].ns = (IF q.prefix = "" THEN "" ELSE nsp[q.prefix])

OnAxis(tr, ctx, n, q) ==
    IF q.abs THEN TRUE
    ELSE IF q.axis = "child" THEN tr[n].parent = ctx
    ELSE IF q.axis = "desc" THEN n # ctx /\ n \in Subtree(tr, ctx)
    ELSE n \in Subtree(tr, ctx)

\* the nodes a path selects, in document order: the elements that pass the
\* step (els) and the text() children of those elements (texts)
xpath_nodes(tr, ctx, q, nsp) ==
    LET start == IF q.abs THEN TreeRoot(tr, ctx) ELSE ctx
        all == Walk(tr, start)
        Hit(n) == OnAxis(tr, ctx, n, q) /\ NameTest(tr, n, q, nsp)
    IN  [els |-> SelectSeq(all, LAMBDA w : w.k = "el" /\ Hit(w.n)),
         texts |-> SelectSeq(all, LAMBDA w : w.k = "text" /\ Hit(w.n))]

\* [err, val]: val is a list of nodes and strings, or a float or a bool;
\* strings are plain str (smart_strings=False)
xpath_eval(tr, ctx, q, nsp) ==
    IF q.prefix # "" /\ q.prefix \notin DOMAIN nsp
    THEN [err |-> "XPathError", val |-> PyNone]
    ELSE
        LET found == xpath_nodes(tr, ctx, q, nsp)
            els == found.els
            texts == found.texts
            ids == SelectSeq(els, LAMBDA w : "id" \in DOMAIN tr[w.n].attrib)
        IN  [err |-> "ok",
             val |-> CASE q.leaf = "el" ->
                          PyList([j \in 1..Len(els) |-> PyVal("_Element", els[j].n, <<>>, <<>>)])
                       [] q.leaf = "text" ->
                          PyList([j \in 1..Len(texts) |-> PyStr(texts[j].s)])
                       [] q.leaf = "attr" ->
                          PyList([j \in 1..Len(ids) |-> PyStr(tr[ids[j].n].attrib["id"])])
                       [] q.leaf = "count" -> PyFloat(Len(els))
                       [] OTHER -> PyBool(els # <<>>)]

----------------------------------------------------------------------------
(* The CSS translator, for the selectors of the model: a type selector     *)
(* with an optional pseudo-element.  A selector is the query record with   *)
(* lang "css": tag the element name, leaf "el", "text" (::text) or "attr"  *)
(* (::attr(id)).                                                           *)

CQ(tag, leaf) ==
    [lang |-> "css", abs |-> FALSE, axis |-> "", prefix |-> "", tag |-> tag, leaf |-> leaf]

\* css_to_xpath(css, prefix="descendant-or-self::")
css_to_xpath(css) == XQ(FALSE, "dos", "", css.tag, css.leaf)

----------------------------------------------------------------------------
(* utils.flatten: src/parsel/utils.py, lines 6-56 *)

\* a Selector as a Python object, for the lists flatten walks
PySel(S) == PyVal("Selector", 0, <<>>, <<S>>)
PySelectorList(L) == PyVal("SelectorList", 0, <<>>, [j \in 1..Len(L) |-> PySel(L[j])])
Selectors(v) == [j \in 1..Len(v) |-> v[j].v[1]]

\* hasattr(x, "__iter__") and not isinstance(x, (str, bytes))
_is_listlike(x) == x.t \in {"list", "tuple", "dict", "set", "SelectorList"}

\* what "for el in x" yields: the items of a list, the keys of a dict
PyIter(x) ==
    IF x.t = "dict" THEN [j \in 1..Len(x.v) |-> PyStr(x.v[j].s)] ELSE x.v

RECURSIVE flatten(_)

\* a loop that yields the later items first
RECURSIVE iflatten_loop_reversed(_)
iflatten_loop_reversed(items) ==
    IF items = <<>> THEN <<>>
    ELSE iflatten_loop_reversed(Tail(items))
         \o (IF _is_listlike(Head(items)) THEN flatten(Head(items)) ELSE <<Head(items)>>)

\* the loop of iflatten over the items "for el in x" yields
RECURSIVE iflatten_loop(_)
iflatten_loop(items) ==
    IF items = <<>> THEN <<>>
    ELSE (IF _is_listlike(Head(items)) THEN flatten(Head(items)) ELSE <<Head(items)>>)
         \o iflatten_loop(Tail(items))

iflatten(x) == iflatten_loop(PyIter(x))

flatten(x) == iflatten(x)

----------------------------------------------------------------------------
(* Values of the variables a specification does not use *)

NoCall == [op |-> "none", q |-> NoExpr, i |-> 0, adhoc |-> <<>>]
NoMade == [err |-> "pending", warn |-> FALSE, sel |-> NoSelector]
NoInput == [text |-> PyNone, type |-> "None", body |-> PyBytes(<<>>),
            encoding |-> "utf-8", root |-> NOT_SET]
\* no read has returned yet
NoReturn == PyNone

Heap0 == <<_default_namespaces>>

----------------------------------------------------------------------------
(* Selector: src/parsel/selector.py, lines 520-812 *)

Raise(h, e) == [err |-> e, res |-> <<>>, heap |-> h]

\* [Selector(root=x, _expr=query, namespaces=self.namespaces, type=...) for x in result]
RECURSIVE make_results(_, _, _, _, _)
make_results(h, items, type, namespaces, query) ==
    IF items = <<>> THEN [err |-> "ok", res |-> <<>>, heap |-> h]
    ELSE Bind(Selector__init__(h, PyNone, type, PyBytes(<<>>), "utf-8", namespaces,
                                Head(items), query),
              LAMBDA c :
                  IF c.err # "ok" THEN Raise(h, c.err)
                  ELSE Bind(make_results(c.heap, Tail(items), type, namespaces, query),
                            LAMBDA rest :
                                IF rest.err # "ok" THEN Raise(h, rest.err)
                                ELSE [err |-> "ok", res |-> <<c.sel>> \o rest.res,
                                      heap |-> rest.heap]))

\* the items of an XPath value: "if type(result) is not list: result = [result]";
\* an element found in a document parsed from src is an element of that document
as_roots(val, src) ==
    Bind(IF val.t = "list" THEN val.v ELSE <<val>>,
         LAMBDA result :
             [j \in 1..Len(result) |->
                 IF result[j].t = "_Element" THEN Element(result[j].i, src) ELSE result[j]])

\* an xpath() that hands the namespaces of the call on to the Selectors it returns
Selector_xpath_leaky(h, tr, S, query, adhoc) ==
    IF S.type \notin {"html", "xml", "text"} THEN Raise(h, "ValueError")
    ELSE IF S.type \in {"html", "xml"} /\ S.root.t # "_Element"
    THEN [err |-> "ok", res |-> <<>>, heap |-> h]
    ELSE
        Bind(IF S.type = "text"
             THEN create_root_node(IF S._text = PyNone THEN <<>> ELSE S._text.s,
                                   <<>>, "utf-8")
             ELSE S.root,
             LAMBDA root :
                 Bind(dict_update(h[S.namespaces], adhoc),
                      LAMBDA nsp :
                          Bind(xpath_eval(TreeOf(tr, root), root.i, query, nsp),
                               LAMBDA r :
                                   IF r.err # "ok" THEN Raise(h, "ValueError")
                                   ELSE make_results(h, as_roots(r.val, root.s),
                                                     _xml_or_html(S.type),
                                                     nsp, query))))

\* an xpath() that lets the AttributeError of a root without .xpath escape
Selector_xpath_unguarded(h, tr, S, query, adhoc) ==
    IF S.type \notin {"html", "xml", "text"} THEN Raise(h, "ValueError")
    ELSE IF S.type \in {"html", "xml"} /\ S.root.t # "_Element"
    THEN Raise(h, "AttributeError")
    ELSE
        Bind(IF S.type = "text"
             THEN create_root_node(IF S._text = PyNone THEN <<>> ELSE S._text.s,
                                   <<>>, "utf-8")
             ELSE S.root,
             LAMBDA root :
                 Bind(dict_update(h[S.namespaces], adhoc),
                      LAMBDA nsp :
                          Bind(xpath_eval(TreeOf(tr, root), root.i, query, nsp),
                               LAMBDA r :
                                   IF r.err # "ok" THEN Raise(h, "ValueError")
                                   ELSE make_results(h, as_roots(r.val, root.s),
                                                     _xml_or_html(S.type),
                                                     h[S.namespaces], query))))

\* an xpath() that adds the namespaces of the call to self.namespaces
\* itself ("nsp = self.namespaces" without the copy)
Selector_xpath_updating(h, tr, S, query, adhoc) ==
    IF S.type \notin {"html", "xml", "text"} THEN Raise(h, "ValueError")
    ELSE IF S.type \in {"html", "xml"} /\ S.root.t # "_Element"
    THEN [err |-> "ok", res |-> <<>>, heap |-> h]
    ELSE
        Bind(IF S.type = "text"
             THEN create_root_node(IF S._text = PyNone THEN <<>> ELSE S._text.s,
                                   <<>>, "utf-8")
             ELSE S.root,
             LAMBDA root :
                 Bind([h EXCEPT ![S.namespaces] = dict_update(@, adhoc)],
                      LAMBDA h2 :
                          Bind(xpath_eval(TreeOf(tr, root), root.i, query, h2[S.namespaces]),
                               LAMBDA r :
                                   IF r.err # "ok" THEN Raise(h2, "ValueError")
                                   ELSE make_results(h2, as_roots(r.val, root.s),
                                                     _xml_or_html(S.type),
                                                     h[S.namespaces], query))))

\* Selector.xpath(query, namespaces=adhoc): [err, res, heap]
Selector_xpath(h, tr, S, query, adhoc) ==
    IF S.type \notin {"html", "xml", "text"} THEN Raise(h, "ValueError")
    ELSE IF S.type \in {"html", "xml"} /\ S.root.t # "_Element"
    THEN [err |-> "ok", res |-> <<>>, heap |-> h]
    ELSE
        Bind(IF S.type = "text"
             THEN create_root_node(IF S._text = PyNone THEN <<>> ELSE S._text.s,
                                   <<>>, "utf-8")
             ELSE S.root,
             LAMBDA root :
                 Bind(dict_update(h[S.namespaces], adhoc),
                      LAMBDA nsp :
                          Bind(xpath_eval(TreeOf(tr, root), root.i, query, nsp),
                               LAMBDA r :
                                   IF r.err # "ok" THEN Raise(h, "ValueError")
                                   ELSE make_results(h, as_roots(r.val, root.s),
                                                     _xml_or_html(S.type),
                                                     h[S.namespaces], query))))

_css2xpath(S, query) == css_to_xpath(query)

\* Selector.css(query)
Selector_css(h, tr, S, query) ==
    IF S.type \notin {"html", "xml", "text"} THEN Raise(h, "ValueError")
    ELSE Selector_xpath(h, tr, S, _css2xpath(S, query), <<>>)

\* a drop() that lets the AttributeError of a root without getparent() escape
Selector_drop_unguarded(tr, S) ==
    IF S.root.t # "_Element"
    THEN [err |-> "AttributeError", tree |-> tr]
    ELSE LET own == TreeOf(tr, S.root)
             parent == getparent(own, S.root.i)
             Kept(after) == IF S.root.s = <<>> THEN after ELSE tr
         IN  IF S.type = "xml"
             THEN IF parent = NoParent THEN [err |-> "ValueError", tree |-> tr]
                  ELSE [err |-> "ok", tree |-> Kept(etree_remove(own, parent, S.root.i))]
             ELSE IF parent = NoParent
                  THEN [err |-> "CannotDropElementWithoutParent", tree |-> tr]
                  ELSE [err |-> "ok", tree |-> Kept(drop_tree(own, S.root.i))]

\* Selector.drop(): [err, tree].  An element of a document re-parsed from a
\* TEXT Selector lives in a tree of its own: dropping it leaves tr as it is.
Selector_drop(tr, S) ==
    IF S.root.t # "_Element"
    THEN [err |-> "CannotRemoveElementWithoutRoot", tree |-> tr]
    ELSE LET own == TreeOf(tr, S.root)
             parent == getparent(own, S.root.i)
             Kept(after) == IF S.root.s = <<>> THEN after ELSE tr
         IN  IF S.type = "xml"
             THEN IF parent = NoParent THEN [err |-> "ValueError", tree |-> tr]
                  ELSE [err |-> "ok", tree |-> Kept(etree_remove(own, parent, S.root.i))]
             ELSE IF parent = NoParent
                  THEN [err |-> "CannotDropElementWithoutParent", tree |-> tr]
                  ELSE [err |-> "ok", tree |-> Kept(drop_tree(own, S.root.i))]

\* Selector.register_namespace(prefix, uri): the heap after self.namespaces[prefix] = uri
Selector_register_namespace(h, S, prefix, uri) ==
    [h EXCEPT ![S.namespaces] = dict_update(@, [p \in {prefix} |-> uri])]

----------------------------------------------------------------------------
(* SelectorList: src/parsel/selector.py, lines 122-291 *)

\* [x.xpath(xpath, namespaces=namespaces) for x in self]:
\* [err, lists, heap], lists the SelectorList objects in order
RECURSIVE each_xpath(_, _, _, _, _)
each_xpath(h, tr, L, query, adhoc) ==
    IF L = <<>> THEN [err |-> "ok", lists |-> <<>>, heap |-> h]
    ELSE Bind(IF query.lang = "css" THEN Selector_css(h, tr, Head(L), query)
              ELSE Selector_xpath(h, tr, Head(L), query, adhoc),
              LAMBDA r :
                  IF r.err # "ok" THEN [err |-> r.err, lists |-> <<>>, heap |-> h]
                  ELSE Bind(each_xpath(r.heap, tr, Tail(L), query, adhoc),
                            LAMBDA rest :
                                IF rest.err # "ok"
                                THEN [err |-> rest.err, lists |-> <<>>, heap |-> h]
                                ELSE [err |-> "ok",
                                      lists |-> <<PySelectorList(r.res)>> \o rest.lists,
                                      heap |-> rest.heap]))

\* SelectorList.xpath / SelectorList.css: self.__class__(flatten([...]))
SelectorList_xpath(h, tr, L, query, adhoc) ==
    Bind(each_xpath(h, tr, L, query, adhoc),
         LAMBDA each :
             IF each.err # "ok" THEN Raise(h, each.err)
             ELSE [err |-> "ok", res |-> Selectors(flatten(PyList(each.lists))),
                   heap |-> each.heap])

\* a loop that goes on to the next element when a drop() raises
RECURSIVE drop_each_suppressed(_, _, _)
drop_each_suppressed(tr, L, j) ==
    IF j > Len(L) THEN [err |-> "ok", tree |-> tr, at |-> 0]
    ELSE Bind(Selector_drop(tr, L[j]),
              LAMBDA d :
                  Bind(drop_each_suppressed(d.tree, L, j + 1),
                       LAMBDA rest :
                           IF d.err # "ok" /\ rest.err = "ok"
                           THEN [err |-> d.err, tree |-> rest.tree, at |-> j]
                           ELSE rest))

\* the loop of SelectorList.drop() from element j on: [err, tree, at], at the
\* index of the element whose drop() raised, 0 when none did
RECURSIVE drop_each(_, _, _)
drop_each(tr, L, j) ==
    IF j > Len(L) THEN [err |-> "ok", tree |-> tr, at |-> 0]
    ELSE Bind(Selector_drop(tr, L[j]),
              LAMBDA d :
                  IF d.err # "ok" THEN [err |-> d.err, tree |-> d.tree, at |-> j]
                  ELSE drop_each(d.tree, L, j + 1))

\* SelectorList.drop(): for x in self: x.drop()
SelectorList_drop(tr, L) == drop_each(tr, L, 1)

----------------------------------------------------------------------------
(* SpecInfer: Selector(text=t, type=k) and Selector(root=r, type=k) over   *)
(* bounded inputs.                                                         *)

MaxTextLen == 3

InferAlphabet == {"1", "0", " ", "\"", "[", "]", ",", "<"}

RECURSIVE SeqsUpTo(_, _)
SeqsUpTo(S, n) ==
    IF n = 0 THEN {<<>>}
    ELSE LET shorter == SeqsUpTo(S, n - 1)
         IN  shorter \cup {Append(s, c) : s \in {x \in shorter : Len(x) = n - 1}, c \in S}

InferTexts ==
    SeqsUpTo(InferAlphabet, MaxTextLen)
    \cup { <<"n", "u", "l", "l">>, <<"n", "u", "l">>, <<"{", "}">>, <<"-", "1">>,
           <<"{", "\"", "a", "\"", ":", "1", "}">>,
           <<"{", "\"", "a", "\"", ":", "1", ",", "\"", "a", "\"", ":", "2", "}">>,
           <<"<", "a", "/", ">">>, <<"NUL", " ", "a">>, <<" ", "NUL">>, <<"a">> }

InferTypes == {"None", "html", "xml", "json", "text", "xhtml"}

InferRoots ==
    { Element(1, <<"<", "a", "/", ">">>), PyDict(<<>>), PyList(<<PyInt(1)>>),
      PyInt(1), PyFloat(1), PyBool(TRUE), PyBool(FALSE), PyNone,
      PyBytes(<<"1">>), PyBytes(<<"<">>) }
    \cup { PyStr(t) : t \in SeqsUpTo(InferAlphabet, MaxTextLen - 1) }

InferInputs ==
    { [NoInput EXCEPT !.text = PyStr(t), !.type = k] : t \in InferTexts, k \in InferTypes }
    \cup { [NoInput EXCEPT !.root = r, !.type = k] : r \in InferRoots, k \in InferTypes }
    \cup { [NoInput EXCEPT !.text = PyStr(<<"a">>), !.root = PyInt(1), !.type = k] : k \in InferTypes }
    \cup { [NoInput EXCEPT !.type = k] : k \in InferTypes }

InitInfer ==
    /\ inp \in InferInputs
    /\ made = NoMade
    /\ heap = Heap0
    /\ kind = "html"
    /\ tree = <<>>
    /\ sel0 = NoSelector
    /\ sl = <<>>
    /\ outcome = "ok"
    /\ last = NoCall
    /\ ret = NoReturn
    /\ ns_fns = setup(NoFunctions)
    /\ cache = NoCache
    /\ call_count = 0

\* the caller evaluates Selector(text=..., type=..., root=...)
Construct ==
    /\ made = NoMade
    /\ Bind(Selector__init__(heap, inp.text, inp.type, inp.body, inp.encoding,
                             <<>>, inp.root, NoExpr),
            LAMBDA r : /\ made' = [err |-> r.err, warn |-> r.warn, sel |-> r.sel]
                       /\ heap' = r.heap)
    /\ UNCHANGED <<inp, kind, tree, sel0, sl, outcome, last, ret, ns_fns, cache, call_count>>

NextInfer == Construct

SpecInfer == InitInfer /\ [][NextInfer]_vars

FromText == inp.text # PyNone /\ made # NoMade
FromRoot == inp.text = PyNone /\ inp.body.s = <<>> /\ inp.root # NOT_SET /\ made # NoMade

\* C8 (as claimed): Selector(text=t, type=k) resolves to text for k = 'text'
\* with t verbatim; to json with the parsed value when t parses as JSON and k
\* is None or 'json'; to k with a DOM root when k is 'html' or 'xml', even if
\* t parses as JSON; and to html when k is None and t is not JSON.
C8_KindFromTextAsClaimed ==
    (FromText /\ inp.type \in {"None", "html", "xml", "json", "text"}) =>
        LET t == inp.text.s
            k == inp.type
            j == json_loads(t)
        IN  /\ made.err = "ok"
            /\ k = "text" => made.sel.type = "text" /\ made.sel.root = PyStr(t)
            /\ (k \in {"None", "json"} /\ j.ok) =>
                   made.sel.type = "json" /\ made.sel.root = j.val
            /\ k \in {"html", "xml"} =>
                   made.sel.type = k /\ made.sel.root.t = "_Element"
            /\ (k = "None" /\ ~j.ok) =>
                   made.sel.type = "html" /\ made.sel.root.t = "_Element"

\* a value json.loads accepts and parses: a str or bytes holding JSON
ParsesAsJson(r) ==
    \/ r.t = "str" /\ json_loads(r.s).ok
    \/ r.t = "bytes" /\ decode(r.s, "utf-8").ok /\ json_loads(decode(r.s, "utf-8").s).ok

JsonLike(r) == r.t \in {"dict", "list"} \/ ParsesAsJson(r)

ValidType == inp.type \in {"None", "html", "xml", "json", "text"}

\* C9 (as claimed): Selector(root=r, type=k): an element r with k in
\* {'json','text'} raises ValueError; an element otherwise is xml for k = 'xml'
\* and html else; a JSON-like r with no hint is json; any other non-DOM r with
\* no hint defaults to html.
C9_KindFromRootAsClaimed ==
    (FromRoot /\ ValidType) =>
        LET r == inp.root
            k == inp.type
        IN  /\ (r.t = "_Element" /\ k \in {"json", "text"}) => made.err = "ValueError"
            /\ (r.t = "_Element" /\ k \notin {"json", "text"}) =>
                   /\ made.err = "ok"
                   /\ made.sel.type = (IF k = "xml" THEN "xml" ELSE "html")
                   /\ made.sel.root = r
            /\ (r.t # "_Element" /\ JsonLike(r) /\ k = "None") =>
                   made.err = "ok" /\ made.sel.type = "json" /\ made.sel.root = r
            /\ (r.t # "_Element" /\ ~JsonLike(r) /\ k = "None") =>
                   made.err = "ok" /\ made.sel.type = "html"

\* C9 (amended): as claimed, except that any other value that is not a DOM
\* node, given with no kind hint, defaults to kind json (not html).
C9_KindFromRoot ==
    (FromRoot /\ ValidType) =>
        LET r == inp.root
            k == inp.type
        IN  /\ (r.t = "_Element" /\ k \in {"json", "text"}) => made.err = "ValueError"
            /\ (r.t = "_Element" /\ k \notin {"json", "text"}) =>
                   /\ made.err = "ok"
                   /\ made.sel.type = (IF k = "xml" THEN "xml" ELSE "html")
                   /\ made.sel.root = r
            /\ (r.t # "_Element" /\ JsonLike(r) /\ k = "None") =>
                   made.err = "ok" /\ made.sel.type = "json" /\ made.sel.root = r
            /\ (r.t # "_Element" /\ ~JsonLike(r) /\ k = "None") =>
                   made.err = "ok" /\ made.sel.type = "json" /\ made.sel.root = r

\* a root that is neither a DOM node nor JSON-like, built with no hint
C9_Witness ==
    /\ FromRoot
    /\ inp.type = "None"
    /\ inp.root.t = "str"
    /\ ~JsonLike(inp.root)
    /\ made.err = "ok"
    /\ made.sel.type = "json"

----------------------------------------------------------------------------
(* SpecSel: one document, its root Selector sel0 and the SelectorList sl   *)
(* of the last query; the caller queries, fans out over sl and drops.      *)

MaxListLen == 4

\* <r>x<li id="1">1</li>[y]<li id="2">t<b>3</b>[z]</li>[w]</r>
Doc(y, z, w) ==
    <<Node("r", "", <<>>, NoParent, <<2, 3>>, <<"x">>, <<>>),
      Node("li", "", [a \in {"id"} |-> <<"1">>], 1, <<>>, <<"1">>, y),
      Node("li", "", [a \in {"id"} |-> <<"2">>], 1, <<4>>, <<"t">>, w),
      Node("b", "", <<>>, 3, <<>>, <<"3">>, z)>>

Docs == {Doc(<<>>, <<>>, <<>>), Doc(<<"y">>, <<"z">>, <<"w">>)}

XQueries ==
    { XQ(TRUE, "dos", "", "li", "el"), XQ(FALSE, "desc", "", "*", "el"),
      XQ(TRUE, "dos", "", "*", "text"),
      XQ(TRUE, "dos", "", "li", "count"), XQ(FALSE, "desc", "", "b", "bool") }

CssQueries == { CQ("li", "text"), CQ("li", "attr") }

\* the dicts of Selectors no longer referenced are freed: the heap keeps the
\* class attribute, sel0's dict and the dicts of the list L, in the order of
\* their addresses, and the Selectors refer to the new addresses
Live(h, L) == {1, sel0.namespaces} \cup {L[j].namespaces : j \in 1..Len(L)}
Moved(h, L, a) == Cardinality({b \in Live(h, L) : b <= a})
Reclaim(h, L) ==
    [heap |-> [k \in 1..Cardinality(Live(h, L)) |->
                  h[CHOOSE a \in Live(h, L) : Moved(h, L, a) = k]],
     sl |-> [j \in 1..Len(L) |-> [L[j] EXCEPT !.namespaces = Moved(h, L, @)]],
     sel0 |-> [sel0 EXCEPT !.namespaces = Moved(h, L, @)]]

InitSel ==
    /\ kind \in {"html", "xml"}
    /\ tree \in Docs
    /\ LET c == Selector__init__(Heap0, PyNone, kind, PyBytes(<<>>), "utf-8", <<>>,
                                 Element(1, <<>>), NoExpr)
       IN  sel0 = c.sel /\ heap = c.heap
    /\ sl = <<>>
    /\ outcome = "ok"
    /\ last = NoCall
    /\ ret = NoReturn
    /\ ns_fns = setup(NoFunctions)
    /\ cache = NoCache
    /\ call_count = 0
    /\ inp = NoInput
    /\ made = NoMade

Target(t) == IF t = 0 THEN sel0 ELSE sl[t]

Called(op, q, t) == last' = [op |-> op, q |-> q, i |-> t, adhoc |-> <<>>]

\* a query returned or raised: on an exception the caller keeps the list it had
Returned(r) ==
    /\ Len(r.res) <= MaxListLen
    /\ outcome' = r.err
    /\ Bind(Reclaim(r.heap, IF r.err = "ok" THEN r.res ELSE sl),
            LAMBDA kept : sl' = kept.sl /\ heap' = kept.heap)
    /\ UNCHANGED <<kind, tree, sel0, inp, made, ret, ns_fns, cache, call_count>>

\* sl = Target(t).xpath(q)
Xpath(t, q) ==
    /\ Returned(Selector_xpath(heap, tree, Target(t), q, <<>>))
    /\ Called("xpath", q, t)

\* sl = Target(t).css(q)
Css(t, q) ==
    /\ Returned(Selector_css(heap, tree, Target(t), q))
    /\ Called("css", q, t)

\* sl = sl.xpath(q), sl = sl.css(q)
ListQuery(q) ==
    /\ sl # <<>>
    /\ Returned(SelectorList_xpath(heap, tree, sl, q, <<>>))
    /\ Called("list_query", q, 0)

\* Target(t).drop()
Drop(t) ==
    /\ Bind(Selector_drop(tree, Target(t)),
            LAMBDA d : tree' = d.tree /\ outcome' = d.err)
    /\ Called("drop", NoExpr, t)
    /\ UNCHANGED <<kind, sel0, sl, heap, inp, made, ret, ns_fns, cache, call_count>>

\* sl.drop()
ListDrop ==
    /\ sl # <<>>
    /\ Bind(SelectorList_drop(tree, sl),
            LAMBDA d : tree' = d.tree /\ outcome' = d.err /\ Called("list_drop", NoExpr, d.at))
    /\ UNCHANGED <<kind, sel0, sl, heap, inp, made, ret, ns_fns, cache, call_count>>

NextSel ==
    \/ \E t \in 0..Len(sl), q \in XQueries : Xpath(t, q)
    \/ \E t \in 0..Len(sl), q \in CssQueries : Css(t, q)
    \/ \E q \in XQueries \cup CssQueries : ListQuery(q)
    \/ \E t \in 0..Len(sl) : Drop(t)
    \/ ListDrop

SpecSel == InitSel /\ [][NextSel]_vars

----------------------------------------------------------------------------
(* SpecNs: an XML document with elements in two namespaces; the caller     *)
(* queries with and without ad-hoc namespaces and registers prefixes on    *)
(* the root Selector and on the Selectors of the last result.              *)

\* <r><e xmlns="u1"/><e xmlns="u2"/></r>
NsDoc ==
    <<Node("r", "", <<>>, NoParent, <<2, 3>>, <<>>, <<>>),
      Node("e", "u1", <<>>, 1, <<>>, <<>>, <<>>),
      Node("e", "u2", <<>>, 1, <<>>, <<>>, <<>>)>>

Prefixes == {"a", "b"}
Uris == {"u1", "u2"}

\* //e, //a:e, //b:e
NsQueries == {XQ(TRUE, "dos", p, "e", "el") : p \in Prefixes \cup {""}}

\* the namespaces argument: None, or a dict of one prefix
AdHoc == {<<>>} \cup {[p \in {x} |-> u] : x \in Prefixes, u \in Uris}

InitNs ==
    /\ kind = "xml"
    /\ tree = NsDoc
    /\ LET c == Selector__init__(Heap0, PyNone, kind, PyBytes(<<>>), "utf-8", <<>>,
                                 Element(1, <<>>), NoExpr)
       IN  sel0 = c.sel /\ heap = c.heap
    /\ sl = <<>>
    /\ outcome = "ok"
    /\ last = NoCall
    /\ ret = NoReturn
    /\ ns_fns = setup(NoFunctions)
    /\ cache = NoCache
    /\ call_count = 0
    /\ inp = NoInput
    /\ made = NoMade

\* sl = Target(t).xpath(q, namespaces=adhoc)
NsXpath(t, q, adhoc) ==
    /\ Bind(Selector_xpath(heap, tree, Target(t), q, adhoc),
            LAMBDA r :
                /\ outcome' = r.err
                /\ Bind(Reclaim(r.heap, IF r.err = "ok" THEN r.res ELSE sl),
                        LAMBDA kept :
                            sl' = kept.sl /\ heap' = kept.heap /\ sel0' = kept.sel0))
    /\ last' = [op |-> "xpath", q |-> q, i |-> t, adhoc |-> adhoc]
    /\ UNCHANGED <<kind, tree, inp, made, ret, ns_fns, cache, call_count>>

\* Target(t).register_namespace(prefix, uri)
Register(t, prefix, uri) ==
    /\ heap' = Selector_register_namespace(heap, Target(t), prefix, uri)
    /\ outcome' = "ok"
    /\ last' = [op |-> "register", q |-> NoExpr, i |-> t, adhoc |-> [p \in {prefix} |-> uri]]
    /\ UNCHANGED <<kind, tree, sel0, sl, inp, made, ret, ns_fns, cache, call_count>>

NextNs ==
    \/ \E t \in 0..Len(sl), q \in NsQueries, adhoc \in AdHoc : NsXpath(t, q, adhoc)
    \/ \E t \in 0..Len(sl), p \in Prefixes, u \in Uris : Register(t, p, u)

SpecNs == InitNs /\ [][NextNs]_vars

----------------------------------------------------------------------------
(* Claims over SpecSel *)

\* what a caller can observe of a Selector: its namespaces by content
View(h, S) == [S EXCEPT !.namespaces = h[S.namespaces]]
Views(h, L) == [j \in 1..Len(L) |-> View(h, L[j])]

RECURSIVE ConcatAll(_)
ConcatAll(lists) == IF lists = <<>> THEN <<>> ELSE Head(lists) \o ConcatAll(Tail(lists))

\* the result of q called on the single Selector S
One(h, tr, S, q) ==
    IF q.lang = "css" THEN Selector_css(h, tr, S, q) ELSE Selector_xpath(h, tr, S, q, <<>>)

C3_DropOfNonNode ==
    [][(last'.op = "drop" /\ Target(last'.i).root.t # "_Element") =>
          /\ outcome' = "CannotRemoveElementWithoutRoot"
          /\ tree' = tree]_vars

\* drop() was called on the string an ::attr() query returned
C3_Witness ==
    /\ last.op = "drop"
    /\ last.i > 0
    /\ sl[last.i].root.t = "str"
    /\ sl[last.i]._expr.leaf = "attr"
    /\ outcome = "CannotRemoveElementWithoutRoot"

\* C4 (as claimed): drop() on a Selector whose node has no parent, for the
\* XML kind as well as the HTML kind, raises CannotDropElementWithoutParent
\* and leaves the document as it was.
C4_DropOfRootAsClaimed ==
    [][(/\ last'.op = "drop"
        /\ Target(last'.i).root.t = "_Element"
        /\ getparent(tree, Target(last'.i).root.i) = NoParent) =>
          /\ outcome' = "CannotDropElementWithoutParent"
          /\ tree' = tree]_vars

\* C10 (as claimed): every Selector that xpath() or css() returns has kind
\* xml when the Selector it was called on has kind xml and html otherwise,
\* whatever its content.
C10_ResultKindAsClaimed ==
    [][(last'.op \in {"xpath", "css"} /\ outcome' = "ok") =>
          \A j \in 1..Len(sl') :
              sl'[j].type = (IF Target(last'.i).type = "xml" THEN "xml" ELSE "html")]_vars

\* the nodes of the elements of L before index i
Dropped(L, i) == {L[j].root.i : j \in {x \in 1..Len(L) : x < i /\ L[x].root.t = "_Element"}}

\* the elements of L before index i are nodes cut from their parents
AllDetached(tr, L, i) ==
    \A j \in 1..Len(L) :
        j < i => L[j].root.t = "_Element" /\ getparent(tr, L[j].root.i) = NoParent

\* no node but those of Dropped(L, i) changed parent
OthersInPlace(before, after, L, i) ==
    \A n \in DOMAIN before :
        n \notin Dropped(L, i) => getparent(after, n) = getparent(before, n)

\* C5: drop() on a SelectorList drops its elements in order; when the drop
\* of element i raises, that error reaches the caller, the elements before i
\* stay dropped and those after i are not dropped; when none raises, every
\* element is dropped.
C5_ListDropStopsAtFirstError ==
    [][(last'.op = "list_drop") =>
          IF outcome' = "ok"
          THEN /\ AllDetached(tree', sl, Len(sl) + 1)
               /\ OthersInPlace(tree, tree', sl, Len(sl) + 1)
          ELSE \E i \in 1..Len(sl) :
                  /\ AllDetached(tree', sl, i)
                  /\ OthersInPlace(tree, tree', sl, i)
                  /\ Selector_drop(tree', sl[i]).err = outcome']_vars

\* the drop of the second or a later element raised, with an element after
\* it still attached
C5_Witness ==
    /\ last.op = "list_drop"
    /\ outcome # "ok"
    /\ last.i >= 2
    /\ \E j \in 1..Len(sl) :
          /\ j > last.i
          /\ sl[j].root.t = "_Element"
          /\ getparent(tree, sl[j].root.i) # NoParent

\* the paths of the model's queries
Paths == XQueries \cup {css_to_xpath(q) : q \in CssQueries}

\* the root nodes of the Selectors the caller holds
Held == {1} \cup {sl[j].root.i : j \in {x \in 1..Len(sl) : sl[x].root.t = "_Element"}}

\* the items that are not part of the subtree of d
Outside(tr, d, items) == SelectSeq(items, LAMBDA w : w.n \notin Subtree(tr, d))

\* the text of a list of text nodes
Content(items) == ConcatAll([j \in 1..Len(items) |-> items[j].s])

\* C2 (as claimed): after a drop() that succeeds, for the HTML kind and the
\* XML kind alike, a query on a Selector of the tree returns neither the
\* dropped node nor its descendants, and returns every other node it
\* returned before, elements and text, in the same order.
C2_DropKeepsTheRestAsClaimed ==
    [][(last'.op = "drop" /\ outcome' = "ok") =>
          LET d == Target(last'.i).root.i
          IN  \A c \in Held \ Subtree(tree, d), q \in Paths :
                  LET before == xpath_nodes(tree, c, q, <<>>)
                      after == xpath_nodes(tree', c, q, <<>>)
                  IN  /\ after.els = Outside(tree, d, before.els)
                      /\ Content(after.texts) = Content(Outside(tree, d, before.texts))]_vars

----------------------------------------------------------------------------
(* Claims over SpecNs *)

\* the Selectors x.xpath() returns for the nodes it found
Roots(L) == [j \in 1..Len(L) |-> L[j].root]

\* C6: xpath(query, namespaces=N) on S evaluates with the namespaces
\* registered on S overridden by N; the call leaves S.namespaces as it was;
\* the Selectors it returns carry the namespaces registered on S and no
\* prefix given only in N, so that a later query on one of them that uses
\* such a prefix fails.
C6_AdHocNamespaces ==
    [][(last'.op = "xpath") =>
          LET S == Target(last'.i)
              N == last'.adhoc
              registered == heap[S.namespaces]
              r == xpath_eval(tree, S.root.i, last'.q, dict_update(registered, N))
          IN  /\ outcome' = (IF r.err = "ok" THEN "ok" ELSE "ValueError")
              /\ Selector_xpath(heap, tree, S, last'.q, N).heap[S.namespaces] = registered
              /\ last'.i = 0 => heap'[sel0'.namespaces] = registered
              /\ outcome' = "ok" =>
                    /\ Roots(sl') = [j \in 1..Len(r.val.v) |-> Element(r.val.v[j].i, <<>>)]
                    /\ \A j \in 1..Len(sl') :
                          /\ heap'[sl'[j].namespaces] = registered
                          /\ \A p \in DOMAIN N \ DOMAIN registered :
                                Selector_xpath(heap', tree', sl'[j],
                                               XQ(FALSE, "dos", p, "e", "el"), <<>>).err
                                    = "ValueError"
              /\ outcome' # "ok" => Views(heap', sl') = Views(heap, sl)]_vars

\* a query that used a prefix given only in the call, or given in the call
\* with another URI than the one registered, and found a node
C6_Witness ==
    /\ last.op = "xpath"
    /\ outcome = "ok"
    /\ sl # <<>>
    /\ last.q.prefix \in DOMAIN last.adhoc
    /\ \/ last.q.prefix \notin DOMAIN heap[sl[1].namespaces]
       \/ heap[sl[1].namespaces][last.q.prefix] # last.adhoc[last.q.prefix]

\* C7: a Selector returned by S.xpath carries exactly the namespaces
\* registered on S at the time of the query; a prefix registered afterwards
\* on S does not reach the Selectors returned before, and a prefix
\* registered on a returned Selector reaches neither S nor the other
\* Selectors of the result.
C7_NamespacesAreCopied ==
    [][/\ (last'.op = "xpath" /\ outcome' = "ok") =>
              \A j \in 1..Len(sl') :
                  heap'[sl'[j].namespaces] = heap[Target(last'.i).namespaces]
       /\ (last'.op = "register") =>
              /\ heap'[Target(last'.i).namespaces] =
                     dict_update(heap[Target(last'.i).namespaces], last'.adhoc)
              /\ \A t \in 0..Len(sl) :
                     t # last'.i => heap'[Target(t).namespaces] = heap[Target(t).namespaces]
              /\ heap'[1] = heap[1]]_vars

\* a prefix was registered on S after S.xpath returned: the Selectors it
\* returned do not have it
C7_Witness ==
    /\ last.op = "register"
    /\ last.i = 0
    /\ sl # <<>>
    /\ \A j \in 1..Len(sl) : DOMAIN last.adhoc \cap DOMAIN heap[sl[j].namespaces] = {}
    /\ DOMAIN last.adhoc \subseteq DOMAIN heap[sel0.namespaces]


----------------------------------------------------------------------------
(* Claims over SpecSel: the kind of a result, queries on a string root *)

\* C10 (amended): a Selector that xpath() or css() returns has kind json
\* when its root is a string that parses as JSON (a text node or an
\* attribute value such as "1"); every other result has kind xml when the
\* Selector it was called on has kind xml and html otherwise.
C10_ResultKind ==
    [][(last'.op \in {"xpath", "css"} /\ outcome' = "ok") =>
          \A j \in 1..Len(sl') :
              sl'[j].type =
                  (IF sl'[j].root.t = "str" /\ json_loads(sl'[j].root.s).ok THEN "json"
                   ELSE IF Target(last'.i).type = "xml" THEN "xml" ELSE "html")]_vars

\* a query returned the text nodes "1" (JSON) and "t" (not JSON)
C10_Witness ==
    /\ last.op \in {"xpath", "css"}
    /\ outcome = "ok"
    /\ \E i, j \in 1..Len(sl) :
          /\ sl[i].root = PyStr(<<"1">>) /\ sl[i].type = "json"
          /\ sl[j].root = PyStr(<<"t">>) /\ sl[j].type = kind

\* C11 (as claimed): xpath() or css() on a Selector whose root is the string
\* of a text node or of an attribute returns an empty SelectorList and does
\* not raise, for every content of the string.
C11_QueryOnStringAsClaimed ==
    [][(last'.op \in {"xpath", "css"} /\ Target(last'.i).root.t = "str") =>
          outcome' = "ok" /\ sl' = <<>>]_vars

\* C11 (amended): xpath() or css() on a Selector whose root is the string of
\* a text node or of an attribute returns an empty SelectorList and does not
\* raise when the string does not parse as JSON; when it parses as JSON the
\* Selector has kind json and the call raises ValueError.
C11_QueryOnString ==
    [][(last'.op \in {"xpath", "css"} /\ Target(last'.i).root.t = "str") =>
          IF json_loads(Target(last'.i).root.s).ok
          THEN outcome' = "ValueError" /\ Target(last'.i).type = "json"
          ELSE outcome' = "ok" /\ sl' = <<>>]_vars

\* //*/text() was called on a Selector of the last result and returned
\* nothing: every element of the documents has text, so the Selector it was
\* called on is one of a string
C11_Witness ==
    /\ last.op = "xpath"
    /\ last.i > 0
    /\ last.q = XQ(TRUE, "dos", "", "*", "text")
    /\ outcome = "ok"
    /\ sl = <<>>

----------------------------------------------------------------------------
(* Selector.jmespath: src/parsel/selector.py, lines 520-560.  A JMESPath   *)
(* query is [lang, path]: path is a sequence of steps, ["field", name] for *)
(* an identifier and ["index", n] for [n]; the empty path is "@".          *)

JQ(path) == [lang |-> "jmespath", path |-> path]
Field(name) == [k |-> "field", name |-> name, n |-> 0]
Index(n) == [k |-> "index", name |-> <<>>, n |-> n]

\* one step of the interpreter: a field of a value that is not an object, a
\* missing key, an index of a value that is not an array and an index out of
\* range are null
jmespath_step(st, data) ==
    IF st.k = "field"
    THEN IF data.t = "dict" /\ \E j \in 1..Len(data.v) : data.v[j].s = st.name
         THEN data.v[CHOOSE j \in 1..Len(data.v) : data.v[j].s = st.name].v[1]
         ELSE PyNone
    ELSE IF data.t = "list" /\ st.n >= 0 /\ st.n < Len(data.v) THEN data.v[st.n + 1]
    ELSE IF data.t = "list" /\ st.n < 0 /\ 0 - st.n <= Len(data.v)
    THEN data.v[Len(data.v) + st.n + 1]
    ELSE PyNone

\* jmespath.search(query, data)
RECURSIVE jmespath_search(_, _)
jmespath_search(path, data) ==
    IF path = <<>> THEN data
    ELSE jmespath_search(Tail(path), jmespath_step(Head(path), data))

\* el.text: None for an element without text
ElementText(tr, e) ==
    IF TreeOf(tr, e)[e.i].text = <<>> THEN PyNone ELSE PyStr(TreeOf(tr, e)[e.i].text)

\* a make_selector that builds every Selector from root=x
RECURSIVE make_selectors_by_root(_, _, _)
make_selectors_by_root(h, items, query) ==
    IF items = <<>> THEN [err |-> "ok", res |-> <<>>, heap |-> h]
    ELSE Bind(Selector__init__(h, PyNone, "None", PyBytes(<<>>), "utf-8", <<>>,
                               Head(items), query),
              LAMBDA c :
                  IF c.err # "ok" THEN Raise(h, c.err)
                  ELSE Bind(make_selectors_by_root(c.heap, Tail(items), query),
                            LAMBDA rest :
                                IF rest.err # "ok" THEN Raise(h, rest.err)
                                ELSE [err |-> "ok", res |-> <<c.sel>> \o rest.res,
                                      heap |-> rest.heap]))

\* [make_selector(x) for x in result]: a str x gives
\* Selector(text=x, _expr=query, type="text"), any other x
\* Selector(root=x, _expr=query)
RECURSIVE make_selectors(_, _, _)
make_selectors(h, items, query) ==
    IF items = <<>> THEN [err |-> "ok", res |-> <<>>, heap |-> h]
    ELSE Bind(IF Head(items).t = "str"
              THEN Selector__init__(h, Head(items), "text", PyBytes(<<>>), "utf-8", <<>>,
                                    NOT_SET, query)
              ELSE Selector__init__(h, PyNone, "None", PyBytes(<<>>), "utf-8", <<>>,
                                    Head(items), query),
              LAMBDA c :
                  IF c.err # "ok" THEN Raise(h, c.err)
                  ELSE Bind(make_selectors(c.heap, Tail(items), query),
                            LAMBDA rest :
                                IF rest.err # "ok" THEN Raise(h, rest.err)
                                ELSE [err |-> "ok", res |-> <<c.sel>> \o rest.res,
                                      heap |-> rest.heap]))

\* "if result is None: result = []; elif not isinstance(result, list): result = [result]"
as_list(result) ==
    IF result = PyNone THEN <<>> ELSE IF result.t = "list" THEN result.v ELSE <<result>>

\* Selector.jmespath(query): [err, res, heap].  On an HTML or XML Selector
\* the data is self.root.text, which a root that is a str does not have.
Selector_jmespath(h, tr, S, query) ==
    IF S.type # "json" /\ S.type \notin {"html", "xml"} THEN Raise(h, "AssertionError")
    ELSE IF S.type # "json" /\ S.root.t # "_Element" THEN Raise(h, "AttributeError")
    ELSE Bind(IF S.type = "json"
              THEN IF S.root.t = "str" THEN _load_json_or_none(S.root) ELSE S.root
              ELSE _load_json_or_none(ElementText(tr, S.root)),
              LAMBDA data :
                  make_selectors(h, as_list(jmespath_search(query.path, data)), query))

----------------------------------------------------------------------------
(* str(), repr() and bool() of the Python values a Selector can hold *)

\* the decimal digits of n >= 0
RECURSIVE Decimal(_)
Decimal(n) == IF n < 10 THEN <<Digits[n + 1]>> ELSE Decimal(n \div 10) \o <<Digits[(n % 10) + 1]>>

int_str(n) == IF n < 0 THEN <<"-">> \o Decimal(0 - n) ELSE Decimal(n)

RECURSIVE py_repr(_)
RECURSIVE repr_join(_, _)
\* the items of a list or dict display, separated by ", "
repr_join(items, isdict) ==
    IF items = <<>> THEN <<>>
    ELSE (IF isdict
          THEN <<"'">> \o Head(items).s \o <<"'", ":", " ">> \o py_repr(Head(items).v[1])
          ELSE py_repr(Head(items)))
         \o (IF Len(items) = 1 THEN <<>> ELSE <<",", " ">> \o repr_join(Tail(items), isdict))

\* repr(v); the strings of the model hold no quote and no backslash
py_repr(v) ==
    CASE v.t = "NoneType" -> <<"N", "o", "n", "e">>
      [] v.t = "bool" -> IF v.i = 1 THEN <<"T", "r", "u", "e">> ELSE <<"F", "a", "l", "s", "e">>
      [] v.t = "int" -> int_str(v.i)
      [] v.t = "float" -> int_str(v.i) \o <<".", "0">>
      [] v.t = "str" -> <<"'">> \o v.s \o <<"'">>
      [] v.t = "list" -> <<"[">> \o repr_join(v.v, FALSE) \o <<"]">>
      [] v.t = "dict" -> <<"{">> \o repr_join(v.v, TRUE) \o <<"}">>

\* str(v)
py_str(v) == IF v.t = "str" THEN v.s ELSE py_repr(v)

\* bool(v)
py_bool(v) ==
    CASE v.t = "NoneType" -> FALSE
      [] v.t \in {"bool", "int", "float"} -> v.i # 0
      [] v.t = "str" -> v.s # <<>>
      [] v.t \in {"list", "dict"} -> v.v # <<>>

----------------------------------------------------------------------------
(* etree.tostring(el, method=..., encoding="unicode", with_tail=False) *)

\* the spelling of the names of the documents
Spell ==
    [n \in {"r", "li", "b", "id", "html", "body", "p", "e", "k", "u1", "u2"} |->
        CASE n = "r" -> <<"r">>
          [] n = "li" -> <<"l", "i">>
          [] n = "b" -> <<"b">>
          [] n = "id" -> <<"i", "d">>
          [] n = "html" -> <<"h", "t", "m", "l">>
          [] n = "body" -> <<"b", "o", "d", "y">>
          [] n = "p" -> <<"p">>
          [] n = "e" -> <<"e">>
          [] n = "k" -> <<"k">>
          [] n = "u1" -> <<"u", "1">>
          [] n = "u2" -> <<"u", "2">>]

\* an attribute name in Clark notation, "{uri}local", and its parts
Clark == [n \in {"{u1}k", "{u2}k"} |->
             IF n = "{u1}k" THEN [uri |-> "u1", local |-> "k"]
             ELSE [uri |-> "u2", local |-> "k"]]

\* the serialisation of the attributes in the set names; a qualified
\* attribute is written with a prefix declared on the element
RECURSIVE write_attrs(_, _)
write_attrs(at, names) ==
    IF names = {} THEN <<>>
    ELSE LET a == CHOOSE x \in names : TRUE
         IN  (IF a \in DOMAIN Clark
              THEN <<" ", "x", "m", "l", "n", "s", ":", "n", "s", "=", "\"">>
                   \o Spell[Clark[a].uri] \o <<"\"", " ", "n", "s", ":">>
                   \o Spell[Clark[a].local]
              ELSE <<" ">> \o Spell[a])
             \o <<"=", "\"">> \o at[a] \o <<"\"">> \o write_attrs(at, names \ {a})

RECURSIVE write_element(_, _, _, _)
RECURSIVE write_kids(_, _, _)
\* inherited is the default namespace in scope
write_element(tr, n, method, inherited) ==
    LET open == <<"<">> \o Spell[tr[n].tag]
                \o (IF tr[n].ns # inherited
                    THEN <<" ", "x", "m", "l", "n", "s", "=", "\"">>
                         \o (IF tr[n].ns = "" THEN <<>> ELSE Spell[tr[n].ns]) \o <<"\"">>
                    ELSE <<>>)
                \o write_attrs(tr[n].attrib, DOMAIN tr[n].attrib)
    IN  IF method = "xml" /\ tr[n].text = <<>> /\ tr[n].kids = <<>>
        THEN open \o <<"/", ">">>
        ELSE open \o <<">">> \o tr[n].text \o write_kids(tr, tr[n].kids, method)
             \o <<"<", "/">> \o Spell[tr[n].tag] \o <<">">>

write_kids(tr, ks, method) ==
    IF ks = <<>> THEN <<>>
    ELSE write_element(tr, Head(ks), method, tr[tr[Head(ks)].parent].ns)
         \o tr[Head(ks)].tail \o write_kids(tr, Tail(ks), method)

etree_tostring(tr, n, method) == write_element(tr, n, method, "")

----------------------------------------------------------------------------
(* Selector.get, getall, __bool__, __str__: src/parsel/selector.py,        *)
(* lines 699-726 and 797-808 *)

\* {"html": "html", "xml": "xml"}: _ctgroup[type]["_tostring_method"]
_tostring_method(type) == type

\* a get() that always returns a string: str(self.root) for TEXT and JSON
Selector_get_stringified(tr, S) ==
    IF S.type \in {"text", "json"} THEN PyStr(py_str(S.root))
    ELSE IF S.root.t = "_Element"
    THEN PyStr(etree_tostring(TreeOf(tr, S.root), S.root.i, _tostring_method(S.type)))
    ELSE IF S.root = PyBool(TRUE) THEN PyStr(<<"1">>)
    ELSE IF S.root = PyBool(FALSE) THEN PyStr(<<"0">>)
    ELSE PyStr(py_str(S.root))

\* Selector.get(): the root itself for TEXT and JSON; the serialisation of
\* an element; for a root etree.tostring rejects, "1", "0" or str(root)
Selector_get(tr, S) ==
    IF S.type \in {"text", "json"} THEN S.root
    ELSE IF S.root.t = "_Element"
    THEN PyStr(etree_tostring(TreeOf(tr, S.root), S.root.i, _tostring_method(S.type)))
    ELSE IF S.root = PyBool(TRUE) THEN PyStr(<<"1">>)
    ELSE IF S.root = PyBool(FALSE) THEN PyStr(<<"0">>)
    ELSE PyStr(py_str(S.root))

\* Selector.getall(): [self.get()]
Selector_getall(tr, S) == PyList(<<Selector_get(tr, S)>>)

\* Selector.__bool__(): bool(self.get())
Selector__bool__(tr, S) == PyBool(py_bool(Selector_get(tr, S)))

\* Selector.__str__(): str(self.get())
Selector__str__(tr, S) == PyStr(py_str(Selector_get(tr, S)))

\* SelectorList.get(default=None): the get() of the first element
SelectorList_get(tr, L) == IF L = <<>> THEN PyNone ELSE Selector_get(tr, L[1])

\* SelectorList.getall(): [x.get() for x in self]
SelectorList_getall(tr, L) == PyList([j \in 1..Len(L) |-> Selector_get(tr, L[j])])

----------------------------------------------------------------------------
(* Selector.attrib, SelectorList.attrib, Selector.remove_namespaces:       *)
(* src/parsel/selector.py, lines 277-284, 738-755 and 786-795 *)

\* dict(el.attrib): the entries of the attribute map as a new dict
RECURSIVE dict_of(_, _)
dict_of(at, names) ==
    IF names = {} THEN <<>>
    ELSE LET a == CHOOSE x \in names : TRUE
         IN  <<PyItem(a, PyStr(at[a]))>> \o dict_of(at, names \ {a})

\* Selector.attrib: [err, val].  A root that is a str has no .attrib.
Selector_attrib(tr, S) ==
    IF S.type = "json" THEN [err |-> "ok", val |-> PyDict(<<>>)]
    ELSE IF S.root.t # "_Element" THEN [err |-> "AttributeError", val |-> PyNone]
    ELSE [err |-> "ok",
          val |-> PyDict(dict_of(TreeOf(tr, S.root)[S.root.i].attrib,
                                 DOMAIN TreeOf(tr, S.root)[S.root.i].attrib))]

\* SelectorList.attrib: the attrib of the first element, {} for an empty list
SelectorList_attrib(tr, L) ==
    IF L = <<>> THEN [err |-> "ok", val |-> PyDict(<<>>)] ELSE Selector_attrib(tr, L[1])

\* an.split("}", 1)[1] for a name that starts with "{", the name otherwise
local_name(an) == IF an \in DOMAIN Clark THEN Clark[an].local ELSE an

\* the attributes after "el.attrib[local] = el.attrib.pop(an)" for every
\* qualified name an: the value of a qualified attribute replaces that of
\* an attribute already named local
strip_attrib(at) ==
    [a \in {local_name(an) : an \in DOMAIN at} |->
        IF \E an \in DOMAIN at : an \in DOMAIN Clark /\ Clark[an].local = a
        THEN at[CHOOSE an \in DOMAIN at : an \in DOMAIN Clark /\ Clark[an].local = a]
        ELSE at[a]]

\* the loop over self.root.iter("*")
strip_namespaces(tr, n) ==
    [m \in DOMAIN tr |->
        IF m \in Subtree(tr, n)
        THEN [tr[m] EXCEPT !.ns = "", !.attrib = strip_attrib(@)]
        ELSE tr[m]]

\* Selector.remove_namespaces(): [err, tree].  Only a JSON Selector returns
\* early; a root that is a str has no .iter.
Selector_remove_namespaces(tr, S) ==
    IF S.type = "json" THEN [err |-> "ok", tree |-> tr]
    ELSE IF S.root.t # "_Element" THEN [err |-> "AttributeError", tree |-> tr]
    ELSE [err |-> "ok",
          tree |-> IF S.root.s = <<>> THEN strip_namespaces(tr, S.root.i) ELSE tr]

----------------------------------------------------------------------------
(* Regular expressions and extract_regex: src/parsel/utils.py, lines 78-98. *)
(* A pattern is a sequence of alternatives, (g1)|(g2)|...: each is         *)
(* [group, lit], lit the literal it matches and group the name of the      *)
(* group around it, "#" for a numbered group and "" for no group.          *)

Alt(group, lit) == [group |-> group, lit |-> lit]

\* regex.groupindex: the names of the named groups
groupindex(regex) ==
    {regex[k].group : k \in 1..Len(regex)} \ {"", "#"}

\* the groups of the pattern, in order
groups_of(regex) == SelectSeq([k \in 1..Len(regex) |-> k], LAMBDA k : regex[k].group # "")

\* the first alternative that matches text at i, 0 when none does
match_at(regex, text, i) ==
    LET Hit(k) == /\ i + Len(regex[k].lit) - 1 <= Len(text)
                  /\ SubSeq(text, i, i + Len(regex[k].lit) - 1) = regex[k].lit
    IN  IF \E k \in 1..Len(regex) : Hit(k)
        THEN CHOOSE k \in 1..Len(regex) : Hit(k) /\ \A j \in 1..(k - 1) : ~Hit(j)
        ELSE 0

NoMatch == [ok |-> FALSE, at |-> 0, alt |-> 0]

\* regex.search(text) from position i on: the leftmost match
RECURSIVE regex_search(_, _, _)
regex_search(regex, text, i) ==
    IF i > Len(text) THEN NoMatch
    ELSE IF match_at(regex, text, i) # 0
    THEN [ok |-> TRUE, at |-> i, alt |-> match_at(regex, text, i)]
    ELSE regex_search(regex, text, i + 1)

\* m.group(name): None for a group the match did not go through
match_group(regex, m, name) ==
    IF regex[m.alt].group = name THEN PyStr(regex[m.alt].lit) ELSE PyNone

\* what findall yields for one match: the match when the pattern has no
\* group, the group when it has one, a tuple of the groups otherwise; a
\* group the match did not go through is ''
findall_item(regex, m) ==
    LET gs == groups_of(regex)
        Text(k) == PyStr(IF k = m.alt THEN regex[k].lit ELSE <<>>)
    IN  IF gs = <<>> THEN PyStr(regex[m.alt].lit)
        ELSE IF Len(gs) = 1 THEN Text(gs[1])
        ELSE PyVal("tuple", 0, <<>>, [j \in 1..Len(gs) |-> Text(gs[j])])

\* regex.findall(text) from position i on
RECURSIVE regex_findall(_, _, _)
regex_findall(regex, text, i) ==
    Bind(regex_search(regex, text, i),
         LAMBDA m :
             IF ~m.ok THEN <<>>
             ELSE <<findall_item(regex, m)>>
                  \o regex_findall(regex, text, m.at + Len(regex[m.alt].lit)))

\* w3lib.html.replace_entities(text, keep=['lt', 'amp']) on a str, for the
\* entities &gt; &lt; and &amp;: &gt; becomes >, the kept ones stay
RECURSIVE w3lib_replace_entities(_)
w3lib_replace_entities(text) ==
    IF text = <<>> THEN <<>>
    ELSE IF Len(text) >= 4 /\ SubSeq(text, 1, 4) = <<"&", "g", "t", ";">>
    THEN <<">">> \o w3lib_replace_entities(SubSeq(text, 5, Len(text)))
    ELSE <<Head(text)>> \o w3lib_replace_entities(Tail(text))

\* _replace_entities(text): [err, val]; replace_entities rejects a text
\* that is neither str nor bytes
_replace_entities(text) ==
    IF text.t # "str" THEN [err |-> "TypeError", val |-> PyNone]
    ELSE [err |-> "ok", val |-> PyStr(w3lib_replace_entities(text.s))]

\* [_replace_entities(s) for s in strings]: [err, val]
RECURSIVE replace_each(_)
replace_each(strings) ==
    IF strings = <<>> THEN [err |-> "ok", val |-> <<>>]
    ELSE Bind(_replace_entities(Head(strings)),
              LAMBDA r :
                  IF r.err # "ok" THEN [err |-> r.err, val |-> <<>>]
                  ELSE Bind(replace_each(Tail(strings)),
                            LAMBDA rest :
                                IF rest.err # "ok" THEN rest
                                ELSE [err |-> "ok", val |-> <<r.val>> \o rest.val]))

Failed(e) == [err |-> e, val |-> PyNone]

\* extract_regex(regex, text): [err, val].  regex.search and regex.findall
\* raise TypeError for a text that is not a str.
extract_regex(regex, text) ==
    IF text.t # "str" THEN Failed("TypeError")
    ELSE IF "extract" \in groupindex(regex)
    THEN Bind(regex_search(regex, text.s, 1),
              LAMBDA m :
                  IF ~m.ok THEN [err |-> "ok", val |-> PyList(<<>>)]
                  ELSE Bind(_replace_entities(match_group(regex, m, "extract")),
                            LAMBDA r :
                                IF r.err # "ok" THEN Failed(r.err)
                                ELSE [err |-> "ok", val |-> PyList(<<r.val>>)]))
    ELSE Bind(replace_each(flatten(PyList(regex_findall(regex, text.s, 1)))),
              LAMBDA r :
                  IF r.err # "ok" THEN Failed(r.err)
                  ELSE [err |-> "ok", val |-> PyList(r.val)])

\* a call of extract_regex: the function takes (regex, text), so a call
\* that also passes replace_entities, by position or by name, raises
\* TypeError; given is "unset" when the argument is not passed
extract_regex_call(regex, text, given) ==
    IF given # "unset" THEN Failed("TypeError") ELSE extract_regex(regex, text)

\* Selector.re(regex, replace_entities):
\* extract_regex(regex, self.get(), replace_entities=replace_entities)
Selector_re(tr, S, regex, replace_entities) ==
    extract_regex_call(regex, Selector_get(tr, S), replace_entities)

\* Selector.re_first(regex, default=None, replace_entities):
\* next(iflatten(self.re(regex, replace_entities=replace_entities)), default)
Selector_re_first(tr, S, regex, replace_entities) ==
    Bind(Selector_re(tr, S, regex, replace_entities),
         LAMBDA r :
             IF r.err # "ok" THEN Failed(r.err)
             ELSE IF iflatten(r.val) = <<>> THEN [err |-> "ok", val |-> PyNone]
             ELSE [err |-> "ok", val |-> iflatten(r.val)[1]])

\* SelectorList.re_first(regex, default=None, replace_entities):
\*     for el in iflatten(x.re(regex, replace_entities=...) for x in self):
\*         return el
\*     return default
\* the generator calls x.re for one element after the other, as long as no
\* string has come out
RECURSIVE SelectorList_re_first(_, _, _, _, _)
SelectorList_re_first(tr, L, regex, default, replace_entities) ==
    IF L = <<>> THEN [err |-> "ok", val |-> default]
    ELSE Bind(Selector_re(tr, Head(L), regex, replace_entities),
              LAMBDA r :
                  IF r.err # "ok" THEN Failed(r.err)
                  ELSE IF flatten(r.val) # <<>>
                  THEN [err |-> "ok", val |-> flatten(r.val)[1]]
                  ELSE SelectorList_re_first(tr, Tail(L), regex, default,
                                             replace_entities))

----------------------------------------------------------------------------
(* SpecJson: one Selector sel0 built from JSON, from text or over a        *)
(* document, and the SelectorList sl of the last query; the caller queries *)
(* with jmespath() and xpath(), reads with get(), getall(), bool() and      *)
(* attrib, and removes the namespaces.                                     *)

\* {"a":[1,2,3]}
ScenarioText ==
    <<"{", "\"", "a", "\"", ":", "[", "1", ",", "2", ",", "3", "]", "}">>

\* {"a": ["1", "t", {}, [7]], "c": [None, 0, False, ""]}
MixedRoot ==
    PyDict(<<PyItem(<<"a">>, PyList(<<PyStr(<<"1">>), PyStr(<<"t">>), PyDict(<<>>),
                                      PyList(<<PyInt(7)>>)>>)),
             PyItem(<<"c">>, PyList(<<PyNone, PyInt(0), PyBool(FALSE), PyStr(<<>>)>>))>>)

\* <r><e xmlns="u1" xmlns:ns="u1" ns:k="1" k="2">[1]</e><e xmlns="u2"/>t</r>
JDoc ==
    <<Node("r", "", <<>>, NoParent, <<2, 3>>, <<>>, <<>>),
      Node("e", "u1", [a \in {"{u1}k", "k"} |-> IF a = "k" THEN <<"2">> ELSE <<"1">>],
           1, <<>>, <<"[", "1", "]">>, <<>>),
      Node("e", "u2", <<>>, 1, <<>>, <<>>, <<"t">>)>>

NoTree == <<>>

\* the arguments of Selector(...): [text, type, root, namespaces] and the
\* document of a root element
JsonInput(text, type, root, doc) ==
    [text |-> text, type |-> type, root |-> root, tree |-> doc, namespaces |-> <<>>]

JsonInputs ==
    { JsonInput(PyStr(ScenarioText), "None", NOT_SET, NoTree),
      JsonInput(PyNone, "None", MixedRoot, NoTree),
      JsonInput(PyStr(<<"0">>), "None", NOT_SET, NoTree),
      JsonInput(PyNone, "None", PyBool(TRUE), NoTree),
      JsonInput(PyStr(<<"t">>), "text", NOT_SET, NoTree),
      JsonInput(PyStr(<<"t">>), "None", NOT_SET, NoTree),
      JsonInput(PyNone, "xml", Element(1, <<>>), JDoc),
      [JsonInput(PyStr(ScenarioText), "None", NOT_SET, NoTree)
           EXCEPT !.namespaces = [p \in {"a"} |-> "u1"]] }

\* @, a, a[1], c
JQueries ==
    { JQ(<<>>), JQ(<<Field(<<"a">>)>>), JQ(<<Field(<<"a">>), Index(1)>>),
      JQ(<<Field(<<"c">>)>>) }

\* .//*, //*/text()
JXQueries ==
    { XQ(FALSE, "desc", "", "*", "el"), XQ(TRUE, "dos", "", "*", "text") }

\* namespaces={"a": "u1"}
JAdHoc == {[p \in {"a"} |-> "u1"]}

\* e::text
JCssQueries == {CQ("e", "text")}

InitJson ==
    /\ \E i \in JsonInputs :
           /\ kind = i.type
           /\ tree = i.tree
           /\ LET c == Selector__init__(Heap0, i.text, i.type, PyBytes(<<>>), "utf-8",
                                        i.namespaces, i.root, NoExpr)
              IN  sel0 = c.sel /\ heap = c.heap
    /\ sl = <<>>
    /\ outcome = "ok"
    /\ last = NoCall
    /\ ret = NoReturn
    /\ ns_fns = setup(NoFunctions)
    /\ cache = NoCache
    /\ call_count = 0
    /\ inp = NoInput
    /\ made = NoMade

\* sl = Target(t).jmespath(q)
Jmespath(t, q) ==
    /\ Returned(Selector_jmespath(heap, tree, Target(t), q))
    /\ Called("jmespath", q, t)

\* a read returned val or raised
Read(op, t, r) ==
    /\ outcome' = r.err
    /\ ret' = r.val
    /\ Called(op, NoExpr, t)
    /\ UNCHANGED <<kind, tree, sel0, sl, heap, inp, made, ns_fns, cache, call_count>>

Value(v) == [err |-> "ok", val |-> v]

\* Target(t).get(), .getall(), bool(Target(t)), .attrib
Get(t) == Read("get", t, Value(Selector_get(tree, Target(t))))
GetAll(t) == Read("getall", t, Value(Selector_getall(tree, Target(t))))
Bool(t) == Read("bool", t, Value(Selector__bool__(tree, Target(t))))
Attrib(t) == Read("attrib", t, Selector_attrib(tree, Target(t)))

\* (f)|(b)
JRegex == <<Alt("#", <<"f">>), Alt("#", <<"b">>)>>

\* Target(t).re(JRegex), Target(t).re_first(JRegex)
Re(t) == Read("re", t, Selector_re(tree, Target(t), JRegex, "True"))
ReFirst(t) == Read("re_first", t, Selector_re_first(tree, Target(t), JRegex, "True"))

\* None and 'd'
ReDefaults == {PyNone, PyStr(<<"d">>)}

\* sl.re_first(JRegex, default)
ListReFirst(default) ==
    /\ Bind(SelectorList_re_first(tree, sl, JRegex, default, "True"),
            LAMBDA r : outcome' = r.err /\ ret' = r.val)
    /\ last' = [op |-> "list_re_first", q |-> default, i |-> 0, adhoc |-> <<>>]
    /\ UNCHANGED <<kind, tree, sel0, sl, heap, inp, made, ns_fns, cache, call_count>>

\* sl.get(), sl.getall(), sl.attrib
ListGet == Read("list_get", 0, Value(SelectorList_get(tree, sl)))
ListGetAll == Read("list_getall", 0, Value(SelectorList_getall(tree, sl)))
ListAttrib == Read("list_attrib", 0, SelectorList_attrib(tree, sl))

\* Target(t).remove_namespaces()
RemoveNamespaces(t) ==
    /\ Bind(Selector_remove_namespaces(tree, Target(t)),
            LAMBDA d : tree' = d.tree /\ outcome' = d.err)
    /\ Called("remove_namespaces", NoExpr, t)
    /\ UNCHANGED <<kind, sel0, sl, heap, inp, made, ret, ns_fns, cache, call_count>>

NextJson ==
    \/ \E t \in 0..Len(sl), q \in JQueries : Jmespath(t, q)
    \/ \E t \in 0..Len(sl), q \in JXQueries, adhoc \in JAdHoc : NsXpath(t, q, adhoc)
    \/ \E t \in 0..Len(sl), q \in JCssQueries : Css(t, q)
    \/ \E t \in 0..Len(sl) : Get(t)
    \/ \E t \in 0..Len(sl) : GetAll(t)
    \/ \E t \in 0..Len(sl) : Bool(t)
    \/ \E t \in 0..Len(sl) : Attrib(t)
    \/ \E t \in 0..Len(sl) : Re(t)
    \/ \E t \in 0..Len(sl) : ReFirst(t)
    \/ \E d \in ReDefaults : ListReFirst(d)
    \/ ListGet
    \/ ListGetAll
    \/ ListAttrib
    \/ \E t \in 0..Len(sl) : RemoveNamespaces(t)

SpecJson == InitJson /\ [][NextJson]_vars

----------------------------------------------------------------------------
(* The CSS translator: src/parsel/csstranslator.py.  XPath expressions are *)
(* character sequences.  A CSS selector is [compounds, combs, pseudo]:     *)
(* compounds the compound selectors from left to right, each [element,     *)
(* has] (element a name or "*", has the name of an [attribute] test or     *)
(* empty), combs the combinators between them (" ", ">", "~") and pseudo   *)
(* the pseudo-element, [k, name] with k "none", "text" or "attr".          *)

endswith(path, suffix) ==
    Len(path) >= Len(suffix)
    /\ SubSeq(path, Len(path) - Len(suffix) + 1, Len(path)) = suffix

\* path[:-n]
drop_last(path, n) == SubSeq(path, 1, Len(path) - n)

DescendantOrSelf ==
    <<"d", "e", "s", "c", "e", "n", "d", "a", "n", "t", "-", "o", "r", "-",
      "s", "e", "l", "f", ":", ":">>

DescendantCombiner ==
    <<"/", "d", "e", "s", "c", "e", "n", "d", "a", "n", "t", "-", "o", "r",
      "-", "s", "e", "l", "f", ":", ":", "*", "/">>

SiblingCombiner ==
    <<"/", "f", "o", "l", "l", "o", "w", "i", "n", "g", "-", "s", "i", "b",
      "l", "i", "n", "g", ":", ":">>

ChildCombiner == <<"/">>
TextFn == <<"t", "e", "x", "t", "(", ")">>
\* "::*/*", the end of a path that went through the descendant combinator
\* to the universal selector
AllDescendants == <<":", ":", "*", "/", "*">>

\* cssselect.xpath.XPathExpr with the textnode and attribute markers of the
\* subclass; attribute is None or a str
XPathExpr(path, element, condition, textnode, attribute) ==
    [path |-> path, element |-> element, condition |-> condition,
     textnode |-> textnode, attribute |-> attribute]

\* cssselect's XPathExpr.__str__: path + element, then [condition]
OriginalXPathExpr__str__(x) ==
    x.path \o x.element
    \o (IF x.condition # <<>> THEN <<"[">> \o x.condition \o <<"]">> ELSE <<>>)

from_xpath(xpath, textnode, attribute) ==
    XPathExpr(xpath.path, xpath.element, xpath.condition, textnode, attribute)

\* a __str__ that appends the step of the pseudo-element to every path
XPathExpr__str__appending(x) ==
    Bind(OriginalXPathExpr__str__(x),
         LAMBDA path :
             Bind(IF x.textnode THEN path \o <<"/">> \o TextFn ELSE path,
                  LAMBDA p2 :
                      IF x.attribute # PyNone
                      THEN p2 \o <<"/", "@">> \o x.attribute.s
                      ELSE p2))

\* XPathExpr.__str__
XPathExpr__str__(x) ==
    Bind(OriginalXPathExpr__str__(x),
         LAMBDA path :
             Bind(IF x.textnode
                  THEN IF path = <<"*">> THEN TextFn
                       ELSE IF endswith(path, AllDescendants)
                       THEN drop_last(path, 3) \o TextFn
                       ELSE path \o <<"/">> \o TextFn
                  ELSE path,
                  LAMBDA p2 :
                      IF x.attribute # PyNone
                      THEN (IF endswith(p2, AllDescendants) THEN drop_last(p2, 2) ELSE p2)
                           \o <<"/", "@">> \o x.attribute.s
                      ELSE p2))

\* XPathExpr.join(combiner, other): cssselect's join (the path of self, as
\* a string, then the combiner, then the path of other unless it is the
\* star prefix; element and condition of other), then the markers of other
XPathExpr_join(self, combiner, other) ==
    XPathExpr(XPathExpr__str__(self) \o combiner
                  \o (IF other.path # <<"*", "/">> THEN other.path ELSE <<>>),
              other.element, other.condition, other.textnode, other.attribute)

Compound(element, has) == [element |-> element, has |-> has]
Pseudo(k, name) == [k |-> k, name |-> name]
CssSelector(compounds, combs, pseudo) ==
    [compounds |-> compounds, combs |-> combs, pseudo |-> pseudo]

\* TranslatorMixin.xpath_element, and cssselect's xpath_attrib for [has]
xpath_element(c) ==
    from_xpath(XPathExpr(<<>>, c.element,
                         IF c.has = <<>> THEN <<>> ELSE <<"@">> \o c.has,
                         FALSE, PyNone),
               FALSE, PyNone)

\* cssselect's xpath_*_combinator
combiner_of(comb) ==
    CASE comb = " " -> DescendantCombiner
      [] comb = ">" -> ChildCombiner
      [] comb = "~" -> SiblingCombiner

\* cssselect's xpath_combinedselector, from left to right over the first n
\* compound selectors
RECURSIVE xpath_combined(_, _)
xpath_combined(css, n) ==
    IF n = 1 THEN xpath_element(css.compounds[1])
    ELSE XPathExpr_join(xpath_combined(css, n - 1), combiner_of(css.combs[n - 1]),
                        xpath_element(css.compounds[n]))

\* TranslatorMixin.xpath_pseudo_element
xpath_pseudo_element(xpath, pseudo_element) ==
    IF pseudo_element.k = "attr"
    THEN from_xpath(xpath, FALSE, PyStr(pseudo_element.name))
    ELSE from_xpath(xpath, TRUE, PyNone)

\* cssselect's selector_to_xpath(selector, prefix, translate_pseudo_elements=True)
selector_to_xpath(css, prefix) ==
    Bind(xpath_combined(css, Len(css.compounds)),
         LAMBDA xpath :
             prefix \o XPathExpr__str__(IF css.pseudo.k # "none"
                                        THEN xpath_pseudo_element(xpath, css.pseudo)
                                        ELSE xpath))

\* TranslatorMixin.xpath_pseudo_element raises ExpressionError: k is
\* "simple" for a simple pseudo-element other than ::text, "functional" for
\* a functional one other than ::attr(), "attr_number" for ::attr() with an
\* argument that is neither a string nor an identifier
pseudo_element_raises(pseudo_element) ==
    pseudo_element.k \in {"simple", "functional", "attr_number"}

\* str.lower() on the letters of the selectors
RECURSIVE str_lower(_)
str_lower(s) ==
    IF s = <<>> THEN <<>>
    ELSE <<CASE Head(s) = "P" -> "p" [] Head(s) = "A" -> "a" [] OTHER -> Head(s)>>
         \o str_lower(Tail(s))

\* cssselect's HTMLTranslator has lower_case_element_name and
\* lower_case_attribute_name set: the names of a selector are lower-cased
lower_case_names(css) ==
    [css EXCEPT !.compounds =
        [k \in 1..Len(css.compounds) |->
            Compound(str_lower(css.compounds[k].element), str_lower(css.compounds[k].has))]]

\* super().css_to_xpath(css, prefix) of the translator of a variant ("html"
\* for HTMLTranslator, "xml" for GenericTranslator): [err, val]
Original_css_to_xpath(variant, css, prefix) ==
    IF pseudo_element_raises(css.pseudo)
    THEN [err |-> "ExpressionError", val |-> PyNone]
    ELSE [err |-> "ok",
          val |-> PyStr(selector_to_xpath(IF variant = "html" THEN lower_case_names(css)
                                          ELSE css,
                                          prefix))]

\* functools.lru_cache(maxsize=256), with a smaller maxsize
maxsize == 2

\* the entries of a cache, least recently used first: [key, result]
cache_keys(c) == {c[k].key : k \in 1..Len(c)}
cache_get(c, key) == (CHOOSE k \in 1..Len(c) : c[k].key = key)

\* a wrapper that leaves a hit where it is in the order
lru_cache_wrapper_unordered(c, key, r) ==
    IF key \in cache_keys(c)
    THEN [err |-> "ok", val |-> c[cache_get(c, key)].result, cache |-> c]
    ELSE IF r.err # "ok" THEN [err |-> r.err, val |-> PyNone, cache |-> c]
    ELSE [err |-> "ok", val |-> r.val,
          cache |-> Append(IF Len(c) >= maxsize THEN Tail(c) ELSE c,
                           [key |-> key, result |-> r.val])]

\* the wrapper of lru_cache around a call with the arguments key, r being
\* what the wrapped function does for them: [err, val, cache].  A hit
\* returns the stored result and becomes the most recent entry; a miss that
\* raises stores nothing; a miss that returns is stored, and the least
\* recent entry goes when the cache is full.
lru_cache_wrapper(c, key, r) ==
    IF key \in cache_keys(c)
    THEN [err |-> "ok", val |-> c[cache_get(c, key)].result,
          cache |-> Append(SelectSeq(c, LAMBDA e : e.key # key), c[cache_get(c, key)])]
    ELSE IF r.err # "ok" THEN [err |-> r.err, val |-> PyNone, cache |-> c]
    ELSE [err |-> "ok", val |-> r.val,
          cache |-> Append(IF Len(c) >= maxsize THEN Tail(c) ELSE c,
                           [key |-> key, result |-> r.val])]

\* GenericTranslator.css_to_xpath / HTMLTranslator.css_to_xpath: the cached
\* method of a variant, called with css and, when prefix is not NOT_SET,
\* with prefix; caches is the pair of caches: [err, val, caches]
Cached_css_to_xpath(caches, variant, css, prefix) ==
    Bind(lru_cache_wrapper(caches[variant], <<css, prefix>>,
                           Original_css_to_xpath(variant, css,
                                                 IF prefix = NOT_SET THEN DescendantOrSelf
                                                 ELSE prefix.s)),
         LAMBDA r : [err |-> r.err, val |-> r.val,
                     caches |-> [caches EXCEPT ![variant] = r.cache]])

----------------------------------------------------------------------------
(* SpecCss: a CSS selector drawn by Init is translated. *)

MaxCompounds == 2

CssElements == {<<"*">>, <<"p">>, <<"a">>}
CssAttribs == {<<>>, <<"h", "r", "e", "f">>}
CssCompounds == {Compound(e, h) : e \in CssElements, h \in CssAttribs}
Combinators == {" ", ">", "~"}
Pseudos ==
    { Pseudo("none", <<>>), Pseudo("text", <<>>),
      Pseudo("attr", <<"c", "l", "a", "s", "s">>) }

CssSelectors ==
    UNION { { CssSelector(cs, cb, ps) :
                 cs \in [1..n -> CssCompounds], cb \in [1..(n - 1) -> Combinators],
                 ps \in Pseudos } : n \in 1..MaxCompounds }

InitCss ==
    /\ inp \in CssSelectors
    /\ ret = NoReturn
    /\ ns_fns = setup(NoFunctions)
    /\ cache = NoCache
    /\ call_count = 0
    /\ outcome = "ok"
    /\ last = NoCall
    /\ made = NoMade
    /\ heap = Heap0
    /\ kind = "None"
    /\ tree = NoTree
    /\ sel0 = NoSelector
    /\ sl = <<>>

\* ret = GenericTranslator().css_to_xpath(inp)
Translate ==
    /\ last = NoCall
    /\ Bind(Cached_css_to_xpath(cache, "xml", inp, NOT_SET),
            LAMBDA r : ret' = r.val /\ outcome' = r.err /\ cache' = r.caches)
    /\ last' = [op |-> "css_to_xpath", q |-> NoExpr, i |-> 0, adhoc |-> <<>>]
    /\ UNCHANGED <<inp, made, heap, kind, tree, sel0, sl, ns_fns, call_count>>

NextCss == Translate

SpecCss == InitCss /\ [][NextCss]_vars

----------------------------------------------------------------------------
(* SpecRe: extract_regex is called on a pattern and a text drawn by Init,  *)
(* with or without the replace_entities argument.                          *)

MaxReTextLen == 3

Foo == <<"f", "o", "o">>
Baz == <<"b", "a", "z">>
Gt == <<"&", "g", "t", ";">>
Lt == <<"&", "l", "t", ";">>
Amp == <<"&", "a", "m", "p", ";">>

\* (?P<extract>foo)|(?P<bar>baz), (?P<extract>f)|(?P<bar>b), (?P<extract>f),
\* (?P<extract>&gt;)|(?P<bar>b), (f)|(b), f|b, &lt;|&gt;|&amp;
RePatterns ==
    { <<Alt("extract", Foo), Alt("bar", Baz)>>,
      <<Alt("extract", <<"f">>), Alt("bar", <<"b">>)>>,
      <<Alt("extract", <<"f">>)>>,
      <<Alt("extract", <<"&", "g", "t", ";">>), Alt("bar", <<"b">>)>>,
      <<Alt("#", <<"f">>), Alt("#", <<"b">>)>>,
      <<Alt("", <<"f">>), Alt("", <<"b">>)>>,
      <<Alt("", Lt), Alt("", Gt), Alt("", Amp)>> }

ReTexts ==
    SeqsUpTo({"f", "b"}, MaxReTextLen)
    \cup {Baz, Foo \o <<"b", "a", "r">>, <<"&", "g", "t", ";">>, <<"f", "&", "g", "t", ";">>,
          Lt \o Gt, Amp \o Gt, Amp \o <<"g", "t", ";">>}

\* the replace_entities argument: not passed, True, False
ReGiven == {"unset", "True", "False"}

InitRe ==
    /\ inp \in [regex : RePatterns, text : {PyStr(t) : t \in ReTexts}, given : ReGiven]
    /\ ret = NoReturn
    /\ ns_fns = setup(NoFunctions)
    /\ cache = NoCache
    /\ call_count = 0
    /\ outcome = "ok"
    /\ last = NoCall
    /\ made = NoMade
    /\ heap = Heap0
    /\ kind = "None"
    /\ tree = NoTree
    /\ sel0 = NoSelector
    /\ sl = <<>>

\* ret = extract_regex(inp.regex, inp.text[, inp.given])
Extract ==
    /\ last = NoCall
    /\ Bind(extract_regex_call(inp.regex, inp.text, inp.given),
            LAMBDA r : ret' = r.val /\ outcome' = r.err)
    /\ last' = [op |-> "extract_regex", q |-> NoExpr, i |-> 0, adhoc |-> <<>>]
    /\ UNCHANGED <<inp, made, heap, kind, tree, sel0, sl, ns_fns, cache, call_count>>

NextRe == Extract

SpecRe == InitRe /\ [][NextRe]_vars

----------------------------------------------------------------------------
(* SpecBuild: one Selector is built from a string given as text=, as       *)
(* body= in an encoding, or as root=, and then read and queried.            *)

MaxBuildLen == 2

BuildAlphabet == {"1", "[", "]", "a", " ", "EACUTE"}
BuildTexts == SeqsUpTo(BuildAlphabet, MaxBuildLen)
BuildTypes == {"None", "html", "json", "text"}
Encodings == {"utf-8", "latin-1"}

\* the arguments of Selector(text=t, type=k), of
\* Selector(body=t.encode(e), encoding=e, type=k) and of
\* Selector(root=t, type=k); value is t
TextArgs(t, k) ==
    [text |-> PyStr(t), type |-> k, body |-> PyBytes(<<>>), encoding |-> "utf-8",
     root |-> NOT_SET, value |-> PyStr(t)]
BodyArgs(t, k, e) ==
    [text |-> PyNone, type |-> k, body |-> PyBytes(encode(t, e)), encoding |-> e,
     root |-> NOT_SET, value |-> PyStr(t)]
RootArgs(t, k) ==
    [text |-> PyNone, type |-> k, body |-> PyBytes(<<>>), encoding |-> "utf-8",
     root |-> PyStr(t), value |-> PyStr(t)]

BuildInputs ==
    { TextArgs(t, k) : t \in BuildTexts, k \in BuildTypes }
    \cup { BodyArgs(t, k, e) : t \in BuildTexts, k \in BuildTypes, e \in Encodings }
    \cup { RootArgs(t, k) : t \in BuildTexts, k \in BuildTypes }

\* //p/text(), //*
BuildQueries == { XQ(TRUE, "dos", "", "p", "text"), XQ(TRUE, "dos", "", "*", "el") }

InitBuild ==
    /\ inp \in BuildInputs
    /\ made = NoMade
    /\ heap = Heap0
    /\ kind = "None"
    /\ tree = NoTree
    /\ sel0 = NoSelector
    /\ sl = <<>>
    /\ outcome = "ok"
    /\ last = NoCall
    /\ ret = NoReturn
    /\ ns_fns = setup(NoFunctions)
    /\ cache = NoCache
    /\ call_count = 0

\* sel0 = Selector(text=..., type=..., body=..., encoding=..., root=...)
Build ==
    /\ made = NoMade
    /\ Bind(Selector__init__(heap, inp.text, inp.type, inp.body, inp.encoding,
                             <<>>, inp.root, NoExpr),
            LAMBDA r : /\ made' = [err |-> r.err, warn |-> r.warn, sel |-> r.sel]
                       /\ sel0' = r.sel
                       /\ heap' = r.heap
                       /\ outcome' = r.err)
    /\ Called("Selector", NoExpr, 0)
    /\ UNCHANGED <<inp, kind, tree, sl, ret, ns_fns, cache, call_count>>

\* sel0.get(), sl = sel0.xpath(q)
BuildGet == made.err = "ok" /\ Get(0)
BuildXpath(q) == made.err = "ok" /\ Xpath(0, q)

NextBuild ==
    \/ Build
    \/ BuildGet
    \/ \E q \in BuildQueries : BuildXpath(q)

SpecBuild == InitBuild /\ [][NextBuild]_vars

----------------------------------------------------------------------------
(* SpecCache: the caller translates CSS selectors with the HTML and the    *)
(* generic translator, again and again.                                    *)

\* p, P, a::text, p::foo, p::attr(1)
CachedSelectors ==
    { CssSelector(<<Compound(<<"p">>, <<>>)>>, <<>>, Pseudo("none", <<>>)),
      CssSelector(<<Compound(<<"P">>, <<>>)>>, <<>>, Pseudo("none", <<>>)),
      CssSelector(<<Compound(<<"a">>, <<>>)>>, <<>>, Pseudo("text", <<>>)),
      CssSelector(<<Compound(<<"p">>, <<>>)>>, <<>>, Pseudo("simple", Foo)),
      CssSelector(<<Compound(<<"p">>, <<>>)>>, <<>>, Pseudo("attr_number", <<"1">>)) }

\* the calls css_to_xpath(css) and, for p, css_to_xpath(css, "")
CachedCalls ==
    { <<css, NOT_SET>> : css \in CachedSelectors }
    \cup { <<CssSelector(<<Compound(<<"p">>, <<>>)>>, <<>>, Pseudo("none", <<>>)),
             PyStr(<<>>)>> }

Variants == {"html", "xml"}

InitCache ==
    /\ cache = NoCache
    /\ ret = NoReturn
    /\ outcome = "ok"
    /\ last = NoCall
    /\ ns_fns = setup(NoFunctions)
    /\ call_count = 0
    /\ inp = NoInput
    /\ made = NoMade
    /\ heap = Heap0
    /\ kind = "None"
    /\ tree = NoTree
    /\ sel0 = NoSelector
    /\ sl = <<>>

\* ret = _ctgroup[variant]["_csstranslator"].css_to_xpath(css[, prefix])
CssToXpath(variant, css, prefix) ==
    /\ Bind(Cached_css_to_xpath(cache, variant, css, prefix),
            LAMBDA r : ret' = r.val /\ outcome' = r.err /\ cache' = r.caches)
    /\ last' = [op |-> "css_to_xpath",
                q |-> [variant |-> variant, css |-> css, prefix |-> prefix],
                i |-> 0, adhoc |-> <<>>]
    /\ UNCHANGED <<inp, made, heap, kind, tree, sel0, sl, ns_fns, call_count>>

NextCache == \E v \in Variants, c \in CachedCalls : CssToXpath(v, c[1], c[2])

SpecCache == InitCache /\ [][NextCache]_vars

----------------------------------------------------------------------------
(* XPath extension functions: src/parsel/xpathfuncs.py, lines 36-111 *)

\* w3lib.html.HTML5_WHITESPACE
HTML5_WHITESPACE == {" ", "\t", "\n", "\f", "\r"}

\* replace_html5_whitespaces(' ', s): every run of whitespace becomes one space
RECURSIVE replace_html5_whitespaces(_)
replace_html5_whitespaces(s) ==
    IF s = <<>> THEN <<>>
    ELSE IF Head(s) \notin HTML5_WHITESPACE
    THEN <<Head(s)>> \o replace_html5_whitespaces(Tail(s))
    ELSE IF Len(s) > 1 /\ s[2] \in HTML5_WHITESPACE
    THEN replace_html5_whitespaces(Tail(s))
    ELSE <<" ">> \o replace_html5_whitespaces(Tail(s))

\* needle in hay, on strings
str_contains(hay, needle) ==
    \E i \in 1..(Len(hay) - Len(needle) + 1) :
        SubSeq(hay, i, i + Len(needle) - 1) = needle

\* context.eval_context of a new evaluation: an empty dict
NewEvalContext == [args_checked |-> FALSE]

\* what a function called from XPath gives back: [err, val, ec], ec the
\* eval_context it leaves
FnReturn(val, ec) == [err |-> "ok", val |-> val, ec |-> ec]
FnRaise(e, ec) == [err |-> e, val |-> PyNone, ec |-> ec]

\* the loop of has_class over classes: ' ' + cls + ' ' raises TypeError for
\* a cls that is not a str
RECURSIVE has_class_loop(_, _)
has_class_loop(node_cls, classes) ==
    IF classes = <<>> THEN [err |-> "ok", val |-> PyBool(TRUE)]
    ELSE IF Head(classes).t # "str" THEN [err |-> "TypeError", val |-> PyNone]
    ELSE IF ~str_contains(node_cls, <<" ">> \o Head(classes).s \o <<" ">>)
    THEN [err |-> "ok", val |-> PyBool(FALSE)]
    ELSE has_class_loop(node_cls, Tail(classes))

\* has_class(context, *classes)
has_class(tr, ec, context_node, classes) ==
    IF ~ec.args_checked /\ classes = <<>> THEN FnRaise("ValueError", ec)
    ELSE IF ~ec.args_checked /\ \E k \in 1..Len(classes) : classes[k].t # "str"
    THEN FnRaise("ValueError", ec)
    ELSE Bind([ec EXCEPT !.args_checked = TRUE],
              LAMBDA checked :
                  IF "class" \notin DOMAIN tr[context_node].attrib
                  THEN FnReturn(PyBool(FALSE), checked)
                  ELSE Bind(has_class_loop(
                                replace_html5_whitespaces(
                                    <<" ">> \o tr[context_node].attrib["class"] \o <<" ">>),
                                classes),
                            LAMBDA r : IF r.err # "ok" THEN FnRaise(r.err, checked)
                                       ELSE FnReturn(r.val, checked)))

\* s.split() on the characters of ws: the tokens of s
RECURSIVE split_on(_, _, _)
split_on(s, ws, word) ==
    IF s = <<>> THEN (IF word = <<>> THEN <<>> ELSE <<word>>)
    ELSE IF Head(s) \in ws
    THEN (IF word = <<>> THEN <<>> ELSE <<word>>) \o split_on(Tail(s), ws, <<>>)
    ELSE split_on(Tail(s), ws, Append(word, Head(s)))

\* the XPath string-value of an element: the text of its descendants
RECURSIVE join_texts(_)
join_texts(items) ==
    IF items = <<>> THEN <<>>
    ELSE (IF Head(items).k = "text" THEN Head(items).s ELSE <<>>) \o join_texts(Tail(items))

string_value(tr, n) == join_texts(Walk(tr, n))

\* the IDs an argument of id() names: the tokens of its string value, for a
\* nodeset those of each node
RECURSIVE id_tokens(_, _)
id_tokens(tr, v) ==
    IF v.t = "str" THEN split_on(v.s, {" ", "\t", "\n", "\r"}, <<>>)
    ELSE IF v.t = "bool"
    THEN <<IF v.i = 1 THEN <<"t", "r", "u", "e">> ELSE <<"f", "a", "l", "s", "e">>>>
    ELSE IF v.t = "list" /\ v.v # <<>>
    THEN id_tokens(tr, PyStr(string_value(tr, Head(v.v).i))) \o id_tokens(tr, PyList(Tail(v.v)))
    ELSE <<>>

\* _id_xpath(context_node, node_id=node_id), id($node_id): the elements
\* whose id is one of the tokens, in document order
_id_xpath(tr, node_id) ==
    SelectSeq([n \in 1..Len(tr) |-> n],
              LAMBDA n : /\ "id" \in DOMAIN tr[n].attrib
                         /\ \E k \in 1..Len(id_tokens(tr, node_id)) :
                                id_tokens(tr, node_id)[k] = tr[n].attrib["id"])

\* el.iterancestors()
RECURSIVE iterancestors(_, _)
iterancestors(tr, n) ==
    IF tr[n].parent = NoParent THEN {}
    ELSE {tr[n].parent} \cup iterancestors(tr, tr[n].parent)

\* the elements in set(nodeset): the characters of a str are no elements
nodeset_elements(nodeset) ==
    IF nodeset.t = "list" THEN {nodeset.v[k].i : k \in 1..Len(nodeset.v)} ELSE {}

Elements(ns) == PyList([k \in 1..Len(ns) |-> Element(ns[k], <<>>)])

\* rel_id(context, node_id, nodeset=None); nodeset is NOT_SET when not
\* passed.  The name string_types is not defined in the module: the
\* isinstance test of the validation raises NameError.
rel_id(tr, ec, context_node, node_id, nodeset) ==
    IF ~ec.args_checked THEN FnRaise("NameError", ec)
    ELSE IF nodeset.t \notin {"_NOT_SET", "list", "str"} THEN FnRaise("TypeError", ec)
    ELSE Bind(_id_xpath(tr, node_id),
              LAMBDA result :
                  Bind(IF nodeset = NOT_SET THEN {context_node}
                       ELSE nodeset_elements(nodeset),
                       LAMBDA among :
                           IF \/ result = <<>>
                              \/ \E k \in 1..Len(result) : result[k] \in among
                              \/ among \cap iterancestors(tr, result[1]) # {}
                           THEN FnReturn(Elements(result), ec)
                           ELSE FnReturn(PyList(<<>>), ec)))

\* the function of the caller in test_set_xpathfunc: def myfunc(ctx), which
\* counts its calls and returns None
myfunc(ec, args) ==
    IF args # <<>> THEN FnRaise("TypeError", ec) ELSE FnReturn(PyNone, ec)

\* a call python_function(context, *args) made by the evaluator
call_function(tr, ec, context_node, func, args) ==
    IF func = "has_class" THEN has_class(tr, ec, context_node, args)
    ELSE IF func = "rel_id"
    THEN IF Len(args) \notin {1, 2} THEN FnRaise("TypeError", ec)
         ELSE rel_id(tr, ec, context_node, args[1],
                     IF Len(args) = 2 THEN args[2] ELSE NOT_SET)
    ELSE myfunc(ec, args)

\* an XPath expression with function calls: //tag[call][call]..., or the
\* one call itself when tag is ""
FQ(tag, calls) == [lang |-> "xpath", tag |-> tag, calls |-> calls]
Call(fn, args) == [fn |-> fn, args |-> args]

\* the argument expressions: a string literal, the context node ".", true()
Lit(s) == [x |-> "literal", s |-> s]
Dot == [x |-> "self", s |-> <<>>]
TrueFn == [x |-> "true", s |-> <<>>]

\* the Python value the evaluator passes for an argument
xpath_arg(context_node, a) ==
    IF a.x = "literal" THEN PyStr(a.s)
    ELSE IF a.x = "self" THEN PyList(<<Element(context_node, <<>>)>>)
    ELSE PyBool(TRUE)

\* one function call of the expression, on one context node: [err, val, ec,
\* ran], ran the number of times myfunc ran.  The name is looked up in the
\* registry when the call is evaluated.
eval_call(tr, fns, ec, context_node, call) ==
    IF call.fn \notin DOMAIN fns
    THEN [err |-> "XPathEvalError", val |-> PyNone, ec |-> ec, ran |-> 0]
    ELSE Bind(call_function(tr, ec, context_node, fns[call.fn],
                            [k \in 1..Len(call.args) |->
                                xpath_arg(context_node, call.args[k])]),
              LAMBDA r : [err |-> r.err, val |-> r.val, ec |-> r.ec,
                          ran |-> IF fns[call.fn] = "myfunc" /\ r.err = "ok"
                                  THEN 1 ELSE 0])

\* the boolean value of what a function returned, in a predicate; None is
\* the empty nodeset
xpath_boolean(val) ==
    IF val.t = "bool" THEN val.i = 1
    ELSE IF val.t = "list" THEN val.v # <<>>
    ELSE FALSE

\* nodes[call]: the predicate is evaluated for one node after the other, and
\* the first exception ends the evaluation
RECURSIVE filter_nodes(_, _, _, _, _)
filter_nodes(tr, fns, ec, nodes, call) ==
    IF nodes = <<>> THEN [err |-> "ok", kept |-> <<>>, ec |-> ec, ran |-> 0]
    ELSE Bind(eval_call(tr, fns, ec, Head(nodes), call),
              LAMBDA r :
                  IF r.err # "ok"
                  THEN [err |-> r.err, kept |-> <<>>, ec |-> r.ec, ran |-> r.ran]
                  ELSE Bind(filter_nodes(tr, fns, r.ec, Tail(nodes), call),
                            LAMBDA rest :
                                [err |-> rest.err,
                                 kept |-> IF rest.err # "ok" THEN <<>>
                                          ELSE (IF xpath_boolean(r.val)
                                                THEN <<Head(nodes)>> ELSE <<>>)
                                               \o rest.kept,
                                 ec |-> rest.ec, ran |-> r.ran + rest.ran]))

\* nodes[call1][call2]...: each predicate filters what the one before kept
RECURSIVE filter_each(_, _, _, _, _)
filter_each(tr, fns, ec, nodes, calls) ==
    IF calls = <<>> THEN [err |-> "ok", kept |-> nodes, ec |-> ec, ran |-> 0]
    ELSE Bind(filter_nodes(tr, fns, ec, nodes, Head(calls)),
              LAMBDA r :
                  IF r.err # "ok" THEN r
                  ELSE Bind(filter_each(tr, fns, r.ec, r.kept, Tail(calls)),
                            LAMBDA rest : [rest EXCEPT !.ran = r.ran + rest.ran]))

\* root.xpath(query) for an expression with function calls, in a new
\* evaluation context: [err, val, ran]
xpath_eval_functions(tr, fns, context_node, q) ==
    IF q.tag = ""
    THEN Bind(eval_call(tr, fns, NewEvalContext, context_node, q.calls[1]),
              LAMBDA r : [err |-> r.err,
                          val |-> IF r.val = PyNone THEN PyList(<<>>) ELSE r.val,
                          ran |-> r.ran])
    ELSE Bind(filter_each(tr, fns, NewEvalContext,
                          SelectSeq([n \in 1..Len(tr) |-> n], LAMBDA n : tr[n].tag = q.tag),
                          q.calls),
              LAMBDA r : [err |-> r.err, val |-> Elements(r.kept), ran |-> r.ran])

\* Selector.xpath(query) for an expression with function calls: [err, res,
\* heap, ran].  etree.XPathError becomes ValueError, the exception of a
\* function is raised as it is.
Selector_xpath_functions(h, tr, fns, S, query) ==
    IF S.type \notin {"html", "xml", "text"}
    THEN [err |-> "ValueError", res |-> <<>>, heap |-> h, ran |-> 0]
    ELSE IF S.type \in {"html", "xml"} /\ S.root.t # "_Element"
    THEN [err |-> "ok", res |-> <<>>, heap |-> h, ran |-> 0]
    ELSE
        Bind(IF S.type = "text"
             THEN create_root_node(IF S._text = PyNone THEN <<>> ELSE S._text.s,
                                   <<>>, "utf-8")
             ELSE S.root,
             LAMBDA root :
                 Bind(xpath_eval_functions(TreeOf(tr, root), fns, root.i, query),
                      LAMBDA r :
                          IF r.err = "XPathEvalError"
                          THEN [err |-> "ValueError", res |-> <<>>, heap |-> h, ran |-> r.ran]
                          ELSE IF r.err # "ok"
                          THEN [err |-> r.err, res |-> <<>>, heap |-> h, ran |-> r.ran]
                          ELSE Bind(make_results(h, as_roots(r.val, root.s),
                                                 _xml_or_html(S.type),
                                                 h[S.namespaces], query),
                                    LAMBDA m : [err |-> m.err, res |-> m.res,
                                                heap |-> m.heap, ran |-> r.ran])))
----------------------------------------------------------------------------
(* SpecFn: one HTML document; the caller registers and removes XPath        *)
(* functions with set_xpathfunc and evaluates expressions that call them.  *)

MaxCalls == 5

Bar == <<"b", "a", "r">>
BarBaz == Bar \o <<"-">> \o Baz

\* <html><body><p class="foo bar-baz"/><p class="foo\tbar"/>
\* <p class="bar" id="a"/><p/></body></html>
FnDoc ==
    <<Node("html", "", <<>>, NoParent, <<2>>, <<>>, <<>>),
      Node("body", "", <<>>, 1, <<3, 4, 5, 6>>, <<>>, <<>>),
      Node("p", "", [a \in {"class"} |-> Foo \o <<" ">> \o BarBaz], 2, <<>>, <<>>, <<>>),
      Node("p", "", [a \in {"class"} |-> Foo \o <<"\t">> \o Bar], 2, <<>>, <<>>, <<>>),
      Node("p", "", [a \in {"class", "id"} |-> IF a = "id" THEN <<"a">> ELSE Bar],
           2, <<>>, <<>>, <<>>),
      Node("p", "", <<>>, 2, <<>>, <<>>, <<>>)>>

\* the argument lists of has-class in //p[has-class(...)]: "foo"; "bar";
\* "foo","bar"; "foo","bar-baz"; "baz"; "foo bar-baz"; ""
ClassArgs ==
    { <<Lit(Foo)>>, <<Lit(Bar)>>, <<Lit(Foo), Lit(Bar)>>, <<Lit(Foo), Lit(BarBaz)>>,
      <<Lit(Baz)>>, <<Lit(Foo \o <<" ">> \o BarBaz)>>, <<Lit(<<>>)>> }

\* has-class(), has-class(.), //p[has-class()], //p[has-class("foo")][has-class()],
\* //p[has-class("foo")][has-class(.)], //p[has-class("foo")][has-class("bar")]
HasClassQueries ==
    { FQ("p", <<Call("has-class", a)>>) : a \in ClassArgs }
    \cup { FQ("", <<Call("has-class", <<>>)>>), FQ("", <<Call("has-class", <<Dot>>)>>),
           FQ("p", <<Call("has-class", <<>>)>>),
           FQ("p", <<Call("has-class", <<Lit(Foo)>>), Call("has-class", <<>>)>>),
           FQ("p", <<Call("has-class", <<Lit(Foo)>>), Call("has-class", <<Dot>>)>>),
           FQ("p", <<Call("has-class", <<Lit(Foo)>>), Call("has-class", <<Lit(Bar)>>)>>) }

\* rel-id("a"), rel-id(true()), rel-id("a", "a"), rel-id("a", .),
\* //p[has-class("bar")][rel-id("a")], //p[has-class("bar")][rel-id(true())],
\* //p[has-class("bar")][rel-id("a", "a")], //p[rel-id("a")][rel-id(true())]
RelIdQueries ==
    { FQ("", <<Call("rel-id", <<Lit(<<"a">>)>>)>>),
      FQ("", <<Call("rel-id", <<TrueFn>>)>>),
      FQ("", <<Call("rel-id", <<Lit(<<"a">>), Lit(<<"a">>)>>)>>),
      FQ("", <<Call("rel-id", <<Lit(<<"a">>), Dot>>)>>),
      FQ("p", <<Call("has-class", <<Lit(Bar)>>), Call("rel-id", <<Lit(<<"a">>)>>)>>),
      FQ("p", <<Call("has-class", <<Lit(Bar)>>), Call("rel-id", <<TrueFn>>)>>),
      FQ("p", <<Call("has-class", <<Lit(Bar)>>), Call("rel-id", <<Lit(<<"a">>), Lit(<<"a">>)>>)>>),
      FQ("p", <<Call("rel-id", <<Lit(<<"a">>)>>), Call("rel-id", <<TrueFn>>)>>) }

\* myfunc(), //p[myfunc()]
MyFuncQueries ==
    { FQ("", <<Call("myfunc", <<>>)>>), FQ("p", <<Call("myfunc", <<>>)>>) }

FnQueries == HasClassQueries \cup RelIdQueries \cup MyFuncQueries

\* the calls set_xpathfunc(fname, func) the caller makes
FnNames == {"has-class", "rel-id", "myfunc"}
Registrations ==
    { <<"has-class", "has_class">>, <<"rel-id", "rel_id">>, <<"myfunc", "myfunc">> }
    \cup { <<n, "None">> : n \in FnNames }

InitFn ==
    /\ kind = "html"
    /\ tree = FnDoc
    /\ LET c == Selector__init__(Heap0, PyNone, kind, PyBytes(<<>>), "utf-8", <<>>,
                                 Element(1, <<>>), NoExpr)
       IN  sel0 = c.sel /\ heap = c.heap
    /\ sl = <<>>
    /\ outcome = "ok"
    /\ last = NoCall
    /\ ret = NoReturn
    /\ ns_fns = setup(NoFunctions)
    /\ cache = NoCache
    /\ call_count = 0
    /\ inp = NoInput
    /\ made = NoMade

\* sl = sel0.xpath(q), q an expression with function calls
FnXpath(q) ==
    /\ Bind(Selector_xpath_functions(heap, tree, ns_fns, sel0, q),
            LAMBDA r :
                /\ call_count + r.ran <= MaxCalls
                /\ outcome' = r.err
                /\ call_count' = call_count + r.ran
                /\ Bind(Reclaim(r.heap, IF r.err = "ok" THEN r.res ELSE sl),
                        LAMBDA kept :
                            sl' = kept.sl /\ heap' = kept.heap /\ sel0' = kept.sel0))
    /\ last' = [op |-> "xpath", q |-> q, i |-> 0, adhoc |-> <<>>]
    /\ UNCHANGED <<kind, tree, inp, made, ret, ns_fns, cache>>

\* set_xpathfunc(fname, func)
SetXpathFunc(fname, func) ==
    /\ Bind(set_xpathfunc(ns_fns, fname, func),
            LAMBDA r : ns_fns' = r.fns /\ outcome' = r.err)
    /\ last' = [op |-> "set_xpathfunc", q |-> [fname |-> fname, func |-> func],
                i |-> 0, adhoc |-> <<>>]
    /\ UNCHANGED <<kind, tree, sel0, sl, heap, inp, made, ret, cache, call_count>>

NextFn ==
    \/ \E q \in FnQueries : FnXpath(q)
    \/ \E r \in Registrations : SetXpathFunc(r[1], r[2])

SpecFn == InitFn /\ [][NextFn]_vars
----------------------------------------------------------------------------
(* Claims over SpecJson *)

\* the content jmespath() reads from a Selector over a document: the text of
\* the root element, or the root itself when it is a string
ContentOf(S) == IF S.root.t = "_Element" THEN ElementText(tree, S.root) ELSE S.root

\* C12 (as claimed): jmespath(q) on an HTML or XML Selector whose content is
\* not valid JSON (an element whose text is not JSON, an element with no
\* text, a root that is a non-JSON string returned by xpath()) returns an
\* empty SelectorList and never raises.
C12_JmespathOnNonJsonAsClaimed ==
    [][(/\ last'.op = "jmespath"
        /\ Target(last'.i).type \in {"html", "xml"}
        /\ ~_is_valid_json(ContentOf(Target(last'.i))))
          => outcome' = "ok" /\ sl' = <<>>]_vars

\* the value jmespath.search works on, for a JSON Selector
DataOf(S) == IF S.root.t = "str" THEN _load_json_or_none(S.root) ELSE S.root

\* C13: jmespath() on a JSON Selector wraps the evaluator's result v: None
\* gives an empty list, a v that is not a list one Selector, a list one
\* Selector per item in order; an item that is a string becomes a Selector
\* of kind text whose root is that string unchanged, even when the string
\* parses as JSON; any other item becomes a Selector of kind json whose root
\* is the item.
C13_JmespathWraps ==
    [][(last'.op = "jmespath" /\ Target(last'.i).type = "json") =>
          LET v == jmespath_search(last'.q.path, DataOf(Target(last'.i)))
              items == IF v.t = "list" THEN v.v ELSE <<v>>
          IN  /\ outcome' = "ok"
              /\ v = PyNone => sl' = <<>>
              /\ v # PyNone =>
                    /\ Len(sl') = Len(items)
                    /\ v.t # "list" => Len(sl') = 1
                    /\ \A j \in 1..Len(items) :
                          /\ sl'[j].root = items[j]
                          /\ sl'[j].type = (IF items[j].t = "str" THEN "text" ELSE "json")]_vars

\* a["1", "t", {}, [7]] wrapped: the string "1" is of kind text, the object
\* and the array of kind json
C13_Witness ==
    /\ last.op = "jmespath"
    /\ outcome = "ok"
    /\ Len(sl) = 4
    /\ sl[1].root = PyStr(<<"1">>) /\ sl[1].type = "text"
    /\ sl[3].root = PyDict(<<>>) /\ sl[3].type = "json"
    /\ sl[4].root = PyList(<<PyInt(7)>>) /\ sl[4].type = "json"

\* sel = Selector(text='{"a":[1,2,3]}')
Scenario == sel0._text = PyStr(ScenarioText)

\* sl is what a jmespath("a[1]") returned
IsSecondOfA == sl # <<>> /\ sl[1]._expr = JQ(<<Field(<<"a">>), Index(1)>>)

\* the three items of sel.jmespath("a"), in order
ThreeOfA ==
    (Scenario /\ last.op = "jmespath" /\ last.i = 0 /\ last.q = JQ(<<Field(<<"a">>)>>)) =>
        /\ outcome = "ok"
        /\ [j \in 1..Len(sl) |-> sl[j].root] = <<PyInt(1), PyInt(2), PyInt(3)>>

\* C14 (as claimed): for {"a":[1,2,3]}, sel.jmespath("a[1]").get() is the
\* string "2", and sel.jmespath("a") yields three Selectors, one per item in
\* order.
C14_ScenarioAsClaimed ==
    /\ (Scenario /\ IsSecondOfA /\ last.op = "list_get") => ret = PyStr(<<"2">>)
    /\ ThreeOfA

\* C14 (amended): sel.jmespath("a[1]").get() is the number 2, the item
\* itself; sel.jmespath("a") yields three Selectors, one per item in order.
C14_Scenario ==
    /\ (Scenario /\ IsSecondOfA /\ last.op = "list_get") => ret = PyInt(2)
    /\ ThreeOfA

C14_Witness ==
    Scenario /\ IsSecondOfA /\ last.op = "list_get" /\ outcome = "ok" /\ ret = PyInt(2)

\* the queries and the reads of SpecJson
QueryOps == {"xpath", "css", "jmespath"}
ReadOps ==
    {"get", "getall", "bool", "attrib", "re", "re_first", "list_get", "list_getall",
     "list_attrib"}

\* the heap as the query of the step leaves it, before the caller drops the
\* list it held
HeapAfter(op, q, t, adhoc) ==
    CASE op = "xpath" -> Selector_xpath(heap, tree, Target(t), q, adhoc).heap
      [] op = "css" -> Selector_css(heap, tree, Target(t), q).heap
      [] op = "jmespath" -> Selector_jmespath(heap, tree, Target(t), q).heap

\* C15: xpath, css, jmespath, get, getall, re, re_first and attrib never change the
\* Selector they are called on nor the tree, whether they return or raise:
\* the tree, and the kind, root, namespaces and raw text of the root Selector
\* and of the Selector called are what they were; every namespace dict that
\* existed holds what it held; after a read or a call that raised, the
\* Selectors obtained earlier are what they were.  xpath() on a TEXT-kind
\* Selector leaves it TEXT-kind with its string as root.
C15_QueriesChangeNothing ==
    [][last'.op \in QueryOps \cup ReadOps =>
          /\ tree' = tree
          /\ View(heap', sel0') = View(heap, sel0)
          /\ last'.op \in QueryOps =>
                \A a \in DOMAIN heap :
                    HeapAfter(last'.op, last'.q, last'.i, last'.adhoc)[a] = heap[a]
          /\ (last'.op \in ReadOps \/ outcome' # "ok") =>
                Views(heap', sl') = Views(heap, sl)]_vars

\* xpath() with ad-hoc namespaces on a TEXT-kind Selector returned elements
\* of the document parsed for the call, and the Selector is still TEXT-kind
C15_Witness ==
    /\ last.op = "xpath"
    /\ last.i = 0
    /\ last.adhoc # <<>>
    /\ outcome = "ok"
    /\ sl # <<>>
    /\ sl[1].root.t = "_Element"
    /\ sel0.type = "text"
    /\ sel0.root = PyStr(<<"t">>)

\* C16 (as claimed): for a Selector of every kind, bool(S) is true if and
\* only if str(S.get()) is not empty, a JSON Selector whose value is a
\* number, a boolean, null, an array or an object included.
C16_TruthIsNonEmptyStrAsClaimed ==
    last.op = "bool" =>
        /\ outcome = "ok"
        /\ ret = PyBool(Selector__str__(tree, Target(last.i)).s # <<>>)

\* C17 (as claimed): attrib never raises: on an HTML or XML Selector it
\* returns a copy of the attributes of the node, on a JSON or TEXT Selector
\* an empty map; on a SelectorList the attrib of the first element, or an
\* empty map when the list is empty.
C17_AttribNeverRaisesAsClaimed ==
    /\ last.op = "attrib" =>
          /\ outcome = "ok"
          /\ Target(last.i).type \in {"json", "text"} => ret = PyDict(<<>>)
    /\ last.op = "list_attrib" =>
          /\ outcome = "ok"
          /\ sl = <<>> => ret = PyDict(<<>>)

\* the elements of the subtree of S whose tag or attribute names are qualified
Qualified(tr, S) ==
    {n \in Subtree(tr, S.root.i) :
        tr[n].ns # "" \/ \E an \in DOMAIN tr[n].attrib : an \in DOMAIN Clark}

\* C18 (as claimed): remove_namespaces() on a JSON or TEXT Selector returns
\* without raising and changes nothing; on an HTML or XML Selector, after it
\* returns, no element of the subtree has a qualified tag or attribute name.
C18_RemoveNamespacesAsClaimed ==
    [][last'.op = "remove_namespaces" =>
          /\ Target(last'.i).type \in {"json", "text"} =>
                /\ outcome' = "ok"
                /\ tree' = tree
                /\ View(heap', Target(last'.i)) = View(heap, Target(last'.i))
          /\ (Target(last'.i).type \in {"html", "xml"} /\ outcome' = "ok"
              /\ Target(last'.i).root.s = <<>>) =>
                Qualified(tree', Target(last'.i)) = {}]_vars

----------------------------------------------------------------------------
(* Claims over SpecCss *)

\* the path generated for the selector without its pseudo-element, before
\* the prefix is put in front
PlainPath(css) ==
    OriginalXPathExpr__str__(xpath_combined(css, Len(css.compounds)))

\* 'p ::text' and 'a > ::attr(class)'
PDescendantText ==
    CssSelector(<<Compound(<<"p">>, <<>>), Compound(<<"*">>, <<>>)>>, <<" ">>,
                Pseudo("text", <<>>))
AChildAttrClass ==
    CssSelector(<<Compound(<<"a">>, <<>>), Compound(<<"*">>, <<>>)>>, <<">">>,
                Pseudo("attr", <<"c", "l", "a", "s", "s">>))

\* 'descendant-or-self::p/descendant-or-self::text()' and
\* 'descendant-or-self::a/*/@class'
CssExamples ==
    /\ inp = PDescendantText =>
          ret = PyStr(
            <<"d", "e", "s", "c", "e", "n", "d", "a", "n", "t", "-", "o",
              "r", "-", "s", "e", "l", "f", ":", ":", "p", "/", "d", "e",
              "s", "c", "e", "n", "d", "a", "n", "t", "-", "o", "r", "-",
              "s", "e", "l", "f", ":", ":", "t", "e", "x", "t", "(", ")">>)
    /\ inp = AChildAttrClass =>
          ret = PyStr(
            <<"d", "e", "s", "c", "e", "n", "d", "a", "n", "t", "-", "o",
              "r", "-", "s", "e", "l", "f", ":", ":", "a", "/", "*", "/",
              "@", "c", "l", "a", "s", "s">>)

\* the rewriting for ::attr(name): a path ending in '::*/*' loses its final
\* '/*', then '/@name' is appended
AttrRewritten ==
    inp.pseudo.k = "attr" =>
        ret = PyStr(DescendantOrSelf
                    \o (IF endswith(PlainPath(inp), AllDescendants)
                        THEN drop_last(PlainPath(inp), 2) ELSE PlainPath(inp))
                    \o <<"/", "@">> \o inp.pseudo.name)

\* C19 (as claimed): for ::text a path that is exactly '*' becomes 'text()',
\* a path ending in '::*/*' has its final '*' replaced by 'text()', any
\* other path gets '/text()' appended; for ::attr(name) a path ending in
\* '::*/*' loses its final '/*', then '/@name' is appended; the rewrite
\* applies to the last step only ('p ::text' gives
\* 'descendant-or-self::p/descendant-or-self::text()', 'a > ::attr(class)'
\* gives 'descendant-or-self::a/*/@class').
C19_PseudoElementRewriteAsClaimed ==
    last.op = "css_to_xpath" =>
        /\ inp.pseudo.k = "text" =>
              ret = PyStr(DescendantOrSelf
                          \o (IF PlainPath(inp) = <<"*">> THEN TextFn
                              ELSE IF endswith(PlainPath(inp), AllDescendants)
                              THEN drop_last(PlainPath(inp), 1) \o TextFn
                              ELSE PlainPath(inp) \o <<"/">> \o TextFn))
        /\ AttrRewritten
        /\ CssExamples

\* C19 (amended): as claimed, except that for ::text a path ending in
\* '::*/*' loses its final '*/*' (three characters), then 'text()' is
\* appended.
C19_PseudoElementRewrite ==
    last.op = "css_to_xpath" =>
        /\ inp.pseudo.k = "text" =>
              ret = PyStr(DescendantOrSelf
                          \o (IF PlainPath(inp) = <<"*">> THEN TextFn
                              ELSE IF endswith(PlainPath(inp), AllDescendants)
                              THEN drop_last(PlainPath(inp), 3) \o TextFn
                              ELSE PlainPath(inp) \o <<"/">> \o TextFn))
        /\ AttrRewritten
        /\ CssExamples

\* 'p ::text' translated
C19_Witness ==
    /\ last.op = "css_to_xpath"
    /\ inp = PDescendantText
    /\ endswith(PlainPath(inp), AllDescendants)
    /\ endswith(ret.s, <<":", ":">> \o TextFn)

----------------------------------------------------------------------------
(* Claims over SpecRe *)

\* the first match of the pattern in the text
FirstMatch == regex_search(inp.regex, inp.text.s, 1)

ThroughExtract == FirstMatch.ok /\ inp.regex[FirstMatch.alt].group = "extract"

\* C20 (as claimed): when the pattern has a named group 'extract',
\* extract_regex(pattern, text, replace_entities) returns a list of at most
\* one string, the text of the group 'extract' in the first match, and the
\* empty list when the pattern does not match and when the first match did
\* not go through 'extract' ((?P<extract>foo)|(?P<bar>baz) on "baz" gives
\* []); the result never holds None nor the text of another group.
C20_ExtractGroupAsClaimed ==
    (last.op = "extract_regex" /\ "extract" \in groupindex(inp.regex)) =>
        /\ outcome = "ok"
        /\ ret.t = "list"
        /\ ~ThroughExtract => ret.v = <<>>
        /\ ThroughExtract =>
              /\ Len(ret.v) = 1
              /\ ret.v[1] = PyStr(IF inp.given = "False"
                                  THEN inp.regex[FirstMatch.alt].lit
                                  ELSE w3lib_replace_entities(inp.regex[FirstMatch.alt].lit))


\* the strings the pattern extracts from the text, as they appear in it:
\* the 'extract' group of the first match, else every match or group
MatchedText(regex, text) ==
    IF "extract" \in groupindex(regex)
    THEN Bind(regex_search(regex, text, 1),
              LAMBDA m : IF m.ok /\ regex[m.alt].group = "extract"
                         THEN <<PyStr(regex[m.alt].lit)>> ELSE <<>>)
    ELSE flatten(PyList(regex_findall(regex, text, 1)))

\* the first match of a pattern with an 'extract' group went through it, or
\* the pattern has no such group
ExtractDefined ==
    "extract" \in groupindex(inp.regex) =>
        Bind(regex_search(inp.regex, inp.text.s, 1),
             LAMBDA m : m.ok => inp.regex[m.alt].group = "extract")

\* C21 (as claimed): extract_regex returns the matched strings with their
\* HTML entities decoded, &amp; and &lt; staying literal, when
\* replace_entities is true or not given, and returns the matched strings
\* exactly as they appear in the text when replace_entities is false.
C21_EntitiesAsClaimed ==
    (last.op = "extract_regex" /\ ExtractDefined) =>
        /\ outcome = "ok"
        /\ ret = PyList([k \in 1..Len(MatchedText(inp.regex, inp.text.s)) |->
                            IF inp.given = "False"
                            THEN MatchedText(inp.regex, inp.text.s)[k]
                            ELSE PyStr(w3lib_replace_entities(
                                     MatchedText(inp.regex, inp.text.s)[k].s))])

\* what holds of the function as written: called with (regex, text) it
\* decodes every entity except &amp; and &lt;
C21_EntitiesWithoutArgument ==
    (last.op = "extract_regex" /\ ExtractDefined /\ inp.given = "unset") =>
        /\ outcome = "ok"
        /\ ret = PyList([k \in 1..Len(MatchedText(inp.regex, inp.text.s)) |->
                            PyStr(w3lib_replace_entities(
                                MatchedText(inp.regex, inp.text.s)[k].s))])


\* the strings re() is to give for a Selector: the matches of the regex in
\* its get()
ReOf(S) == extract_regex(JRegex, Selector_get(tree, S))

C22_EmptyListGivesDefault ==
    (last.op = "list_re_first" /\ sl = <<>>) => outcome = "ok" /\ ret = last.q


----------------------------------------------------------------------------
(* Claims over SpecFn *)

\* the elements the Selectors of a list stand for
RootsOf(L) == [j \in 1..Len(L) |-> L[j].root.i]

\* the last call evaluated //p[has-class(c1, ..., cn)] with string literals,
\* has-class being the function of the package
HasClassOnP ==
    /\ last.op = "xpath"
    /\ last.q.tag = "p"
    /\ Len(last.q.calls) = 1
    /\ last.q.calls[1].fn = "has-class"
    /\ last.q.calls[1].args # <<>>
    /\ \A k \in 1..Len(last.q.calls[1].args) : last.q.calls[1].args[k].x = "literal"
    /\ "has-class" \in DOMAIN ns_fns
    /\ ns_fns["has-class"] = "has_class"

\* the tokens of the class attribute of node n
ClassTokens(n) ==
    {split_on(tree[n].attrib["class"], HTML5_WHITESPACE, <<>>)[k] :
        k \in 1..Len(split_on(tree[n].attrib["class"], HTML5_WHITESPACE, <<>>))}

\* every argument of the call is one whole token of the class attribute of n
AllWholeTokens(n, args) ==
    /\ "class" \in DOMAIN tree[n].attrib
    /\ \A k \in 1..Len(args) : args[k].s \in ClassTokens(n)

\* C23 (as claimed): has-class(c1, ..., cn) is true for a node exactly when
\* the node has a class attribute and every ci is one whole token of it, the
\* tokens being split on runs of HTML5 whitespace; a ci that is a substring
\* of a token or that spans several tokens does not match.
C23_HasClassAsClaimed ==
    HasClassOnP =>
        /\ outcome = "ok"
        /\ RootsOf(sl) = SelectSeq([n \in 1..Len(tree) |-> n],
                                   LAMBDA n : /\ tree[n].tag = "p"
                                              /\ AllWholeTokens(n, last.q.calls[1].args))

\* what holds of the function as written: the claim, for arguments that
\* hold no whitespace
C23_HasClassOfPlainNames ==
    (/\ HasClassOnP
     /\ \A k \in 1..Len(last.q.calls[1].args) :
            \A j \in 1..Len(last.q.calls[1].args[k].s) :
                last.q.calls[1].args[k].s[j] \notin HTML5_WHITESPACE) =>
        /\ outcome = "ok"
        /\ RootsOf(sl) = SelectSeq([n \in 1..Len(tree) |-> n],
                                   LAMBDA n : /\ tree[n].tag = "p"
                                              /\ AllWholeTokens(n, last.q.calls[1].args))


\* call k of the last expression is a has-class call without argument or
\* with an argument that is not a string
BadHasClass(k) ==
    /\ last.q.calls[k].fn = "has-class"
    /\ \/ last.q.calls[k].args = <<>>
       \/ \E a \in 1..Len(last.q.calls[k].args) : last.q.calls[k].args[a].x # "literal"

HasClassIsRegistered ==
    "has-class" \in DOMAIN ns_fns /\ ns_fns["has-class"] = "has_class"

\* C24 (as claimed): an expression in which has-class is called with no
\* argument or with an argument that is not a string raises ValueError,
\* at whichever call site of the expression the call stands, and a has-class
\* call without arguments matches no node.
C24_HasClassArgumentsAsClaimed ==
    (/\ last.op = "xpath"
     /\ HasClassIsRegistered
     /\ \E k \in 1..Len(last.q.calls) : BadHasClass(k)) =>
        outcome = "ValueError"

\* what holds of the function as written: the first function call of an
\* evaluation is validated
C24_FirstCallIsValidated ==
    (last.op = "xpath" /\ HasClassIsRegistered /\ BadHasClass(1)) =>
        outcome = "ValueError"

\* //p[has-class("foo")][has-class()] returned the two elements of class foo
C24_UnvalidatedCallMatches ==
    /\ last.op = "xpath"
    /\ Len(last.q.calls) = 2
    /\ BadHasClass(2)
    /\ outcome = "ok"
    /\ RootsOf(sl) = <<3, 4>>


\* call k of the last expression is a rel-id call whose first argument is
\* not a string, or whose second argument is given and is not a nodeset
BadRelId(k) ==
    /\ last.q.calls[k].fn = "rel-id"
    /\ Len(last.q.calls[k].args) \in {1, 2}
    /\ \/ last.q.calls[k].args[1].x # "literal"
       \/ Len(last.q.calls[k].args) = 2 /\ last.q.calls[k].args[2].x # "self"

FunctionsAsSetUp == ns_fns = setup(NoFunctions)

\* C25 (as claimed): an expression in which rel-id is called with a first
\* argument that is not a string, or with a second argument that is not a
\* nodeset, raises ValueError, also when a has-class call or another rel-id
\* call was evaluated before it in the same evaluation.
C25_RelIdArgumentsAsClaimed ==
    (/\ last.op = "xpath"
     /\ FunctionsAsSetUp
     /\ \E k \in 1..Len(last.q.calls) : BadRelId(k)) =>
        outcome = "ValueError"

\* //p[has-class("bar")][rel-id(true())] returned without an exception
C25_UnvalidatedCallReturns ==
    /\ last.op = "xpath"
    /\ FunctionsAsSetUp
    /\ Len(last.q.calls) = 2
    /\ BadRelId(2)
    /\ outcome = "ok"

\* rel-id as the first function call of an evaluation raises NameError
C25_FirstCallRaisesNameError ==
    (/\ last.op = "xpath"
     /\ FunctionsAsSetUp
     /\ last.q.calls[1].fn = "rel-id") =>
        outcome = "NameError"


\* the names an expression can call unprefixed
Registered(fns) == DOMAIN fns

\* the expressions of one function call with valid arguments: myfunc(),
\* //p[myfunc()], //p[has-class(c1, ...)] with string literals, rel-id("a"),
\* rel-id("a", .)
ValidCall(q) ==
    /\ Len(q.calls) = 1
    /\ \/ q.calls[1].fn = "myfunc"
       \/ /\ q.calls[1].fn = "has-class"
          /\ q.calls[1].args # <<>>
          /\ \A k \in 1..Len(q.calls[1].args) : q.calls[1].args[k].x = "literal"
       \/ /\ q.calls[1].fn = "rel-id"
          /\ q.calls[1].args \in {<<Lit(<<"a">>)>>, <<Lit(<<"a">>), Dot>>}

\* how often the one call of q is evaluated: once, or once per p element
Evaluations(q) ==
    IF q.tag = "" THEN 1 ELSE Cardinality({n \in 1..Len(tree) : tree[n].tag = q.tag})

----------------------------------------------------------------------------
(* Claims over SpecJson: the context of the Selectors of a query *)

\* every prefix of the namespace dict d is in the dict e, with the same URI
Inherits(d, e) == \A p \in DOMAIN d : p \in DOMAIN e /\ e[p] = d[p]

\* C27 (as claimed): every Selector that S.jmespath(q) returns has in its
\* namespace map each prefix registered on S, as the Selectors that
\* S.xpath(q) returns have.
C27_JmespathSharesContextAsClaimed ==
    [][(last'.op = "jmespath" /\ outcome' = "ok") =>
          \A j \in 1..Len(sl') :
              Inherits(heap[Target(last'.i).namespaces], heap'[sl'[j].namespaces])]_vars


----------------------------------------------------------------------------
(* Claims over SpecCache *)

\* the key of the last call, and what a translation without cache gives for it
LastKey == <<last.q.css, last.q.prefix>>
Uncached(q) ==
    Original_css_to_xpath(q.variant, q.css,
                          IF q.prefix = NOT_SET THEN DescendantOrSelf ELSE q.prefix.s)

\* the keys of a cache in its order, without key
KeysWithout(c, key) ==
    SelectSeq([k \in 1..Len(c) |-> c[k].key], LAMBDA x : x # key)

\* C28: whatever calls came before, css_to_xpath(css, prefix) returns, or
\* raises, exactly what the translation without cache does, hit or miss; the
\* cache of a variant never holds more than maxsize entries; a call that
\* returns leaves its key as the most recent entry, keeps the order of the
\* others, and drops none but the least recent one, and that only when the
\* cache was full and the key new; a call that raises stores nothing; and a
\* call of one variant leaves the cache of the other variant as it was.
C28_CacheIsTransparent ==
    [][last'.op = "css_to_xpath" =>
          LET v == last'.q.variant
              key == <<last'.q.css, last'.q.prefix>>
          IN  /\ outcome' = Uncached(last'.q).err
              /\ ret' = Uncached(last'.q).val
              /\ Len(cache'[v]) <= maxsize
              /\ \A o \in Variants \ {v} : cache'[o] = cache[o]
              /\ outcome' # "ok" => cache'[v] = cache[v] /\ key \notin cache_keys(cache[v])
              /\ outcome' = "ok" =>
                     /\ cache'[v][Len(cache'[v])] = [key |-> key, result |-> ret']
                     /\ KeysWithout(cache'[v], key) =
                            IF key \notin cache_keys(cache[v]) /\ Len(cache[v]) = maxsize
                            THEN Tail(KeysWithout(cache[v], key))
                            ELSE KeysWithout(cache[v], key)]_vars

\* both caches are full, the two translators hold different results for one
\* key, and the HTML translator's last call returned and is its most recent
\* entry
C28_Witness ==
    /\ last.op = "css_to_xpath"
    /\ last.q.variant = "html"
    /\ Len(cache.html) = maxsize
    /\ Len(cache.xml) = maxsize
    /\ \E i \in 1..Len(cache.html), j \in 1..Len(cache.xml) :
           /\ cache.html[i].key = cache.xml[j].key
           /\ cache.html[i].result # cache.xml[j].result
    /\ cache.html[maxsize].key = LastKey
    /\ outcome = "ok"


----------------------------------------------------------------------------
(* Claims over SpecBuild *)

\* Selector(text=t, type=k) for the string and the type of the input
FromTextOf(i) ==
    Selector__init__(Heap0, i.value, i.type, PyBytes(<<>>), "utf-8", <<>>, NOT_SET, NoExpr)

\* the input gives the string as body= or, when it is empty, gives no body
GivenAsBody == inp.text = PyNone /\ inp.root = NOT_SET

\* C29 (as claimed): Selector(body=t.encode(e), encoding=e, type=k) has the
\* kind and the get() of Selector(text=t, type=k), for every string t,
\* encoding e and type k; the JSON parse is attempted in every encoding.
C29_BytesLikeTextAsClaimed ==
    (made # NoMade /\ GivenAsBody) =>
        /\ made.err = FromTextOf(inp).err
        /\ made.sel.type = FromTextOf(inp).sel.type
        /\ Selector_get(tree, made.sel) = Selector_get(tree, FromTextOf(inp).sel)

\* what holds of the constructor as written: the claim, for a string that is
\* not empty and an encoding that is UTF-8
C29_Utf8BytesLikeText ==
    (made # NoMade /\ GivenAsBody /\ inp.value.s # <<>> /\ inp.encoding = "utf-8") =>
        /\ made.err = FromTextOf(inp).err
        /\ made.sel.type = FromTextOf(inp).sel.type
        /\ Selector_get(tree, made.sel) = Selector_get(tree, FromTextOf(inp).sel)


\* a Selector of kind text whose value is the string s, built from text=
OfText(S) == [S EXCEPT !._text = Selector_get(tree, S)]

\* what the Selectors of a list stand for: type and root
Found(L) == [j \in 1..Len(L) |-> [type |-> L[j].type, root |-> L[j].root]]

\* C30 (as claimed): xpath() on a Selector of kind text evaluates the query
\* against the HTML parse of the Selector's value, the string get() returns,
\* whether the Selector was built from text=, from body= or from root=: it
\* finds what the query finds for a Selector built from text= with that value.
C30_TextKindQueriesOwnValueAsClaimed ==
    [][(/\ last'.op = "xpath"
        /\ sel0.type = "text"
        /\ sel0.root.t = "str") =>
          /\ outcome' = "ok"
          /\ Found(sl') = Found(Selector_xpath(heap, tree, OfText(sel0), last'.q, <<>>).res)]_vars

====
